---- MODULE Spec2Model ----
(***************************************************************************)
(* Session lifecycle of the WhatsApp gateway: the session registry         *)
(* (SessionManager), the connection state machine                          *)
(* (ConnectionService.connect and the handlers it wires), the logout       *)
(* controller, the auto-heal sweep, and the Supabase credential store      *)
(* adapter (useSupabaseAuthState: key layout, bulk delete, binary codec).  *)
(*                                                                         *)
(* The state names sessionIds, artifact types and ids by short strings;    *)
(* Chars gives the characters of each, and startsWith, the UUID regex, key *)
(* concatenation, split, SQL LIKE and base64 are computed on the           *)
(* characters, as the code computes them.                                  *)
(*                                                                         *)
(* Node runs one task at a time: an action is the synchronous stretch of a *)
(* function between two awaits (or a whole handler when it has none).      *)
(***************************************************************************)
EXTENDS Integers, Sequences, FiniteSets, TLC

\* ------------------------------------------------------------------ bounds
\* connect() attempts that get past the guard, over the whole run
MaxAttempts == 2
\* pending setTimeout(connect) timers per session
MaxTimers == 1
\* creds.update events per session (credential-write specification)
MaxCredsEvents == 4

\* ----------------------------------------------------------------- strings
StartsWith(s, p) == Len(s) >= Len(p) /\ SubSeq(s, 1, Len(p)) = p

HexChars ==
    {"0","1","2","3","4","5","6","7","8","9",
     "a","b","c","d","e","f","A","B","C","D","E","F"}

\* /^[0-9a-f]{8}-[0-9a-f]{4}-[0-9a-f]{4}-[0-9a-f]{4}-[0-9a-f]{12}$/i
UUID_REGEX(s) ==
    /\ Len(s) = 36
    /\ \A i \in 1..36 :
          IF i \in {9, 14, 19, 24} THEN s[i] = "-" ELSE s[i] \in HexChars

\* 'main-session', the default sessionId
MainSession == "main-session"

\* a tenant-scoped (UUID-shaped) sessionId
UuidSession == "0a1b2c3d-0000-4000-8000-00000000000e"

\* socket.user.id of the account that scanned the QR code
UserJid == "628:1@s"

\* the characters of the strings the state names
Chars(str) ==
    CASE str = "main-session" ->
            <<"m","a","i","n","-","s","e","s","s","i","o","n">>
      [] str = "0a1b2c3d-0000-4000-8000-00000000000e" ->
            <<"0","a","1","b","2","c","3","d","-","0","0","0","0","-",
              "4","0","0","0","-","8","0","0","0","-",
              "0","0","0","0","0","0","0","0","0","0","0","e">>
      [] str = "628:1@s" -> <<"6","2","8",":","1","@","s">>
      [] str = "auth" -> <<"a","u","t","h">>
      [] str = "pre-key" -> <<"p","r","e","-","k","e","y">>
      [] str = "creds" -> <<"c","r","e","d","s">>
      [] str = "1" -> <<"1">>
      [] str = "2" -> <<"2">>
      [] str = "CS-BOT" -> <<"C","S","-","B","O","T">>
      [] str = "ab" -> <<"a","b">>
      [] str = "ab-x" -> <<"a","b","-","x">>
      [] str = "a_" -> <<"a","_">>
      [] str = "a%" -> <<"a","%">>
      [] str = "ab:x" -> <<"a","b",":","x">>
      [] str = "x" -> <<"x">>
      [] str = "wa-bot-ai" -> <<"w","a","-","b","o","t","-","a","i">>
      [] str = "init" -> <<"i","n","i","t">>
      [] str = "status" -> <<"s","t","a","t","u","s">>
      [] str = "qr" -> <<"q","r">>
      [] str = "logout" -> <<"l","o","g","o","u","t">>

WaBotAi == <<"w","a","-","b","o","t","-","a","i">>

Colon == <<":">>

\* ------------------------------------------------------- credential store
\* a TABLE_NAME that looks at the prefix alone
TableNamePrefixOnly(sessionId) ==
    IF StartsWith(Chars(sessionId), WaBotAi)
    THEN "wa_ai_sessions" ELSE "wa_sessions"

\* TABLE_NAME for USE_PRODUCTION_DB = true
TableName(sessionId) ==
    IF StartsWith(Chars(sessionId), WaBotAi) \/ UUID_REGEX(Chars(sessionId))
    THEN "wa_ai_sessions" ELSE "wa_sessions"

TableNames == {"wa_ai_sessions", "wa_sessions"}

\* `${sessionId}:${type}:${id}`
getKey(sessionId, type, id) ==
    Chars(sessionId) \o Colon \o Chars(type) \o Colon \o Chars(id)

\* a row is named by the (sessionId, type, id) it was written under; its id
\* column holds the key string
Row(sessionId, type, id) == [sid |-> sessionId, type |-> type, id |-> id]

RowId(row) == getKey(row.sid, row.type, row.id)

\* SQL LIKE: '%' matches any run of characters, '_' any one character,
\* every other pattern character itself (the ids used here hold no '\').
RECURSIVE Like(_, _)
Like(str, pat) ==
    IF pat = <<>> THEN str = <<>>
    ELSE IF Head(pat) = "%"
         THEN Like(str, Tail(pat)) \/ (str # <<>> /\ Like(Tail(str), pat))
    ELSE IF str = <<>> THEN FALSE
    ELSE (Head(pat) = "_" \/ Head(pat) = Head(str)) /\ Like(Tail(str), Tail(pat))

\* the rows DELETE ... WHERE id LIKE `${sessionId}:%` removes from a table
ClearPattern(sessionId) == Chars(sessionId) \o Colon \o <<"%">>

Restrict(f, S) == [k \in S |-> f[k]]

\* upsert(..., { onConflict: 'id' })
Upsert(rows, row, value) ==
    LET others == { k \in DOMAIN rows : RowId(k) # RowId(row) } IN
    [k \in others \cup {row} |-> IF k = row THEN value ELSE rows[k]]

\* clearSession: .delete().filter('id', 'like', `${sessionId}:%`)
ClearSessionRows(rows, sessionId) ==
    Restrict(rows, { k \in DOMAIN rows : ~Like(RowId(k), ClearPattern(sessionId)) })

\* the row saveCreds writes: writeData('auth', 'creds', creds)
CredsRow(sessionId) == Row(sessionId, "auth", "creds")

\* the rows of one table that sessionId's adapter wrote
RowsOf(rows, sessionId) == { k \in DOMAIN rows : k.sid = sessionId }

\* ------------------------------------------------------------- the state
\* the sessionIds a run may serve
SessionIds == {MainSession, UuidSession}

Attempts == 1..MaxAttempts

\* no record / no attempt
NoRec == 0

\* null (and the empty string, which every use in the code treats alike)
NULL == <<>>

\* no sessionId
NoSession == "none"

QrPayload == <<"q","r">>

\* DisconnectReason.loggedOut
LoggedOut == 401
\* DisconnectReason.connectionClosed, standing for every other reason code
ConnectionClosed == 428
\* lastDisconnect?.error?.output?.statusCode === undefined
NoStatusCode == 0

VARIABLES
    registry,      \* SessionManager.sessions: sessionId -> record (NoRec: no entry)
    rec,           \* the sessionData object each connect() attempt builds
    pc,            \* where each connect() attempt stands
    sock,          \* the transport handle each attempt opened
    hpc,           \* where the terminal (loggedOut) close handler of each handle stands
    timers,        \* pending setTimeout(() => connect(sessionId), 10000) per session
    table,         \* Supabase credential tables: table name -> (row id -> value)
    userSessions,  \* Supabase user_sessions rows
    lo,            \* the logout request being served
    cw,            \* the creds.update events of one handle and the upserts they issued
    codec,         \* a value on its way through bufferToBase64 / base64ToBuffer
    resp,          \* the HTTP answer sent in the last step, or the QR request in progress
    sw,            \* a supervisor sweep over a registry: its kind, failures and effects
    call,          \* the last call into the credential adapter and what its caller got
    proc,          \* the Node process: running or exited, and what it logged last
    disp           \* the messages.upsert batch a handle delivered and its dispatches

vars ==
    <<registry, rec, pc, sock, hpc, timers, table, userSessions, lo, cw, codec,
      resp, sw, call, proc, disp>>

\* sessionData before connect() built it
NullRec ==
    [sid |-> NoSession, socket |-> FALSE, clearSessionHandler |-> FALSE,
     connection |-> "none", qr |-> NULL, phoneNumber |-> NULL, name |-> NULL]

IdleLogout == [pc |-> "idle", sid |-> NoSession, socket |-> NoRec, hook |-> FALSE]

IdleWrites == [sid |-> NoSession, creds |-> 0, status |-> <<>>]

IdleCodec == [phase |-> "idle", v |-> <<"null", 0>>, enc |-> <<"null", 0>>, dec |-> <<"null", 0>>]

\* no answer was sent in the last step
NoResponse ==
    [pending |-> FALSE, of |-> NoRec, code |-> 0, success |-> FALSE, status |-> "none",
     isConnected |-> FALSE, phoneNumber |-> NULL, hasQR |-> FALSE, qr |-> NULL,
     qrImage |-> NULL, user |-> NULL, message |-> "none"]

IdleSweep ==
    [kind |-> "none", reg |-> <<>>, fails |-> {}, out |-> <<>>, calls |-> <<>>,
     after |-> <<>>]

IdleCall ==
    [op |-> "none", sid |-> NoSession, table |-> "none", failure |-> "none",
     result |-> "none", value |-> <<"null", 0>>]

IdleProc == [state |-> "running", server |-> "none", raised |-> "none", logged |-> FALSE]

IdleDispatch == [sid |-> NoSession, type |-> "none", batch |-> <<>>, out |-> <<>>]

\* no request, sweep, adapter call, failure or message batch has been seen
IdleRest ==
    /\ resp = NoResponse /\ sw = IdleSweep /\ call = IdleCall
    /\ proc = IdleProc /\ disp = IdleDispatch

\* the sessionIds this run serves
Sessions == DOMAIN registry

\* ------------------------------------------------------- session registry
\* SessionManager.getSession
getSession(reg, sessionId) == reg[sessionId]

\* SessionManager.setSession
setSession(reg, sessionId, r) == [reg EXCEPT ![sessionId] = r]

\* SessionManager.deleteSession
deleteSession(reg, sessionId) == [reg EXCEPT ![sessionId] = NoRec]

\* ------------------------------------------------------ the machine state
\* what connect(), the handlers it wires, logout and the sweep read and write
Machine ==
    [registry |-> registry, rec |-> rec, pc |-> pc, sock |-> sock, hpc |-> hpc,
     timers |-> timers, table |-> table, userSessions |-> userSessions, lo |-> lo]

\* a sessionData object something can still read: the registry holds it, its
\* connect() has not returned, or its handle still delivers events
Reachable(m, a) ==
    \/ \E s \in DOMAIN m.registry : m.registry[s] = a
    \/ m.pc[a] \in {"fetch", "load"}
    \/ m.sock[a] = "live"

\* objects nothing can read any more are dropped; the sessionId their
\* closures captured stays
Collect(m) ==
    [a \in Attempts |->
        IF m.pc[a] = "unused" \/ Reachable(m, a) \/ (resp.pending /\ resp.of = a)
        THEN m.rec[a]
        ELSE [NullRec EXCEPT !.sid = m.rec[a].sid]]

Step(m) ==
    /\ registry' = m.registry
    /\ rec' = Collect(m)
    /\ pc' = m.pc
    /\ sock' = m.sock
    /\ hpc' = m.hpc
    /\ timers' = m.timers
    /\ table' = m.table
    /\ userSessions' = m.userSessions
    /\ lo' = m.lo
    /\ resp' = IF resp.pending THEN resp ELSE NoResponse
    /\ UNCHANGED <<cw, codec, sw, call, proc, disp>>

\* ---------------------------------------------------- connect(sessionId)
FreeAttempts(m) == { a \in Attempts : m.pc[a] = "unused" }

NewAttempt(m) == CHOOSE a \in FreeAttempts(m) : \A b \in FreeAttempts(m) : a <= b

\* a guard that forgets 'connecting'
ConnectGuardOpenOnly(m, sessionId) ==
    LET existingSession == m.registry[sessionId] IN
    /\ existingSession # NoRec
    /\ m.rec[existingSession].connection = "open"

\* the guard of connect(): a record exists and is 'open' or 'connecting'
ConnectGuard(m, sessionId) ==
    LET existingSession == getSession(m.registry, sessionId) IN
    /\ existingSession # NoRec
    /\ m.rec[existingSession].connection \in {"open", "connecting"}

\* a cleanup that leaves the old handle as it is
CleanupOldSocketSkipped(sockets, old) == sockets

\* existingSession.socket.ev.removeAllListeners(); existingSession.socket.end()
CleanupOldSocket(sockets, old) == [sockets EXCEPT ![old] = "detached"]

\* connect() from its entry to its first await (fetchLatestBaileysVersion)
ConnectSync(m, sessionId) ==
    LET existingSession == getSession(m.registry, sessionId)
        a == NewAttempt(m)
        hasOld == existingSession # NoRec /\ m.rec[existingSession].socket
        sessionData ==
            [sid |-> sessionId, socket |-> FALSE, clearSessionHandler |-> FALSE,
             connection |-> "connecting", qr |-> NULL,
             phoneNumber |->
                 IF existingSession # NoRec
                 THEN m.rec[existingSession].phoneNumber ELSE NULL,
             name |-> NULL]
    IN  IF ConnectGuard(m, sessionId) THEN m
        ELSE [m EXCEPT
                !.sock = IF hasOld THEN CleanupOldSocket(@, existingSession) ELSE @,
                !.rec = [x \in Attempts |->
                            IF x = a THEN sessionData
                            ELSE IF hasOld /\ x = existingSession
                                 THEN [@[x] EXCEPT !.socket = FALSE]
                            ELSE @[x]],
                !.registry = setSession(@, sessionId, a),
                !.pc = [@ EXCEPT ![a] = "fetch"]]

\* whether a call of connect() fits the attempt bound
CanConnect(m, sessionId) == ConnectGuard(m, sessionId) \/ FreeAttempts(m) # {}

\* POST /:sessionId/init -> initSession -> await connectionService.connect(sessionId)
InitSession(sessionId) ==
    /\ CanConnect(Machine, sessionId)
    /\ Step(ConnectSync(Machine, sessionId))

\* setTimeout(() => this.connect(sessionId), 10000) fires
TimerFire(sessionId) ==
    /\ timers[sessionId] > 0
    /\ CanConnect(Machine, sessionId)
    /\ Step(ConnectSync([Machine EXCEPT !.timers[sessionId] = @ - 1], sessionId))

\* a catch block that logs and schedules nothing
ConnectCatchNoRetry(m, a) == [m EXCEPT !.pc[a] = "caught"]

\* the catch block of connect(): log, then setTimeout(() => this.connect(sessionId), 10000)
ConnectCatch(m, a) ==
    [m EXCEPT !.pc[a] = "caught", !.timers[m.rec[a].sid] = @ + 1]

\* fetchLatestBaileysVersion() resolved: connect() calls useSupabaseAuthState
FetchDone(a) ==
    /\ pc[a] = "fetch"
    /\ Step([Machine EXCEPT !.pc[a] = "load"])

\* fetchLatestBaileysVersion() rejected
FetchFail(a) ==
    /\ pc[a] = "fetch"
    /\ timers[rec[a].sid] < MaxTimers
    /\ Step(ConnectCatch(Machine, a))

\* useSupabaseAuthState() resolved and the hook was stored, makeWASocket() threw
OpenFail(a) ==
    /\ pc[a] = "load"
    /\ timers[rec[a].sid] < MaxTimers
    /\ Step(ConnectCatch([Machine EXCEPT !.rec[a].clearSessionHandler = TRUE], a))

\* a connect() that wires the subscriptions and never stores the socket
LoadDoneUnstored(a) ==
    /\ pc[a] = "load"
    /\ Step([Machine EXCEPT
                !.pc[a] = "wired",
                !.rec[a].clearSessionHandler = TRUE,
                !.sock[a] = "live"])

\* useSupabaseAuthState() resolved: the hook is stored, the socket is made and
\* stored in sessionData, the three subscriptions are wired
LoadDone(a) ==
    /\ pc[a] = "load"
    /\ Step([Machine EXCEPT
                !.pc[a] = "wired",
                !.rec[a].clearSessionHandler = TRUE,
                !.rec[a].socket = TRUE,
                !.sock[a] = "live"])

\* ------------------------------------------------ connection.update handler
UserName == <<"B","o","b">>

\* str.split(':')[0]
RECURSIVE SplitHead(_)
SplitHead(str) ==
    IF str = <<>> \/ Head(str) = ":" THEN <<>>
    ELSE <<Head(str)>> \o SplitHead(Tail(str))

ConnectionValues == {"connecting", "open", "close"}

\* the updates a handle emits: a QR payload, a connection value, or both;
\* a status code comes with 'close' only
Updates ==
    { u \in [connection : ConnectionValues \cup {"none"},
             qr : {NULL, QrPayload},
             statusCode : {NoStatusCode, LoggedOut, ConnectionClosed}] :
        /\ (u.connection = "none" => u.qr # NULL)
        /\ (u.connection # "close" => u.statusCode = NoStatusCode) }

\* a classification that takes a missing status code for a logout
ShouldReconnectKnownOnly(statusCode) ==
    statusCode # LoggedOut /\ statusCode # NoStatusCode

\* const shouldReconnect = statusCode !== DisconnectReason.loggedOut
ShouldReconnect(statusCode) == statusCode # LoggedOut

\* configService.upsertUserSession(userId, waSessionId)
upsertUserSession(rows, userId, waSessionId) ==
    rows \cup {[user_id |-> userId, wa_session_id |-> waSessionId]}

\* configService.removeUserSession(waSessionId): .delete().eq('wa_session_id', waSessionId)
removeUserSession(rows, waSessionId) ==
    { r \in rows : r.wa_session_id # waSessionId }

\* a handler whose 'open' branch leaves the QR payload in the record
UpdatedRecordKeepsQr(r, u) ==
    LET r1 == IF u.qr # NULL
              THEN [r EXCEPT !.qr = u.qr, !.connection = "waiting_qr"]
              ELSE r
        r2 == IF u.connection # "none"
              THEN [r1 EXCEPT !.connection = u.connection]
              ELSE r1
    IN  IF u.connection = "open"
        THEN [r2 EXCEPT !.phoneNumber = SplitHead(Chars(UserJid)),
                        !.name = UserName]
        ELSE IF u.connection = "close" THEN [r2 EXCEPT !.qr = NULL]
        ELSE r2

\* the record after the synchronous assignments of the handler
UpdatedRecord(r, u) ==
    LET r1 == IF u.qr # NULL
              THEN [r EXCEPT !.qr = u.qr, !.connection = "waiting_qr"]
              ELSE r
        r2 == IF u.connection # "none"
              THEN [r1 EXCEPT !.connection = u.connection]
              ELSE r1
    IN  IF u.connection = "open"
        THEN [r2 EXCEPT !.qr = NULL,
                        !.phoneNumber = SplitHead(Chars(UserJid)),
                        !.name = UserName]
        ELSE IF u.connection = "close" THEN [r2 EXCEPT !.qr = NULL]
        ELSE r2

\* the close branch of the handler, up to its first await: a reconnect timer,
\* or the terminal path, which starts with removeUserSession for a UUID
\* sessionId and with clearSession otherwise
OnClose(m, a, statusCode) ==
    LET sessionId == m.rec[a].sid IN
    IF ShouldReconnect(statusCode)
    THEN [m EXCEPT !.timers[sessionId] = @ + 1]
    ELSE [m EXCEPT !.hpc[a] = IF UUID_REGEX(Chars(sessionId)) THEN "rmUser" ELSE "clear"]

\* socket.ev.on('connection.update', ...) of attempt a. A 'close' update is
\* the handle's last: the library emits it as it ends the handle. stored:
\* whether the database applied upsertUserSession's upsert.
OnConnectionUpdate(m, a, u, stored) ==
    LET sessionId == m.rec[a].sid
        m1 == [m EXCEPT !.rec[a] = UpdatedRecord(@, u)]
        m2 == IF u.connection = "open" /\ UUID_REGEX(Chars(sessionId)) /\ stored
              THEN [m1 EXCEPT !.userSessions =
                       upsertUserSession(@, sessionId, UserJid)]
              ELSE m1
    IN  IF u.connection = "close"
        THEN OnClose([m2 EXCEPT !.sock[a] = "closed"], a, u.statusCode)
        ELSE m2

\* a reconnect the handler schedules must fit the timer bound
FitsTimers(a, u) ==
    (u.connection = "close" /\ ShouldReconnect(u.statusCode))
        => timers[rec[a].sid] < MaxTimers

\* a live handle emits connection.update
ConnectionUpdate(a, u, stored) ==
    /\ sock[a] = "live"
    /\ FitsTimers(a, u)
    /\ (~stored => u.connection = "open" /\ UUID_REGEX(Chars(rec[a].sid)))
    /\ Step(OnConnectionUpdate(Machine, a, u, stored))

\* terminal path: removeUserSession() settled (ok: the database applied the
\* delete); the handler goes on to call clearSession()
RemoveUserSessionDone(a, ok) ==
    /\ hpc[a] = "rmUser"
    /\ Step([Machine EXCEPT
                !.userSessions = IF ok THEN removeUserSession(@, rec[a].sid) ELSE @,
                !.hpc[a] = "clear"])

\* clearSession() settled: the database ran the delete (ok) or answered with
\* an error, which clearSession logs
ClearSession(m, sessionId, ok) ==
    IF ok
    THEN [m EXCEPT !.table[TableName(sessionId)] = ClearSessionRows(@, sessionId)]
    ELSE m

\* terminal path: await clearSession() settled, the handler goes on to
\* sessionManager.deleteSession(sessionId). Nothing here reads the table
\* between the database's delete and the arrival of its response, so the two
\* are one step.
TerminalClear(m, a, ok) ==
    [ClearSession(m, m.rec[a].sid, ok) EXCEPT
        !.registry = deleteSession(@, m.rec[a].sid),
        !.hpc[a] = "idle"]

ClearSessionDone(a, ok) ==
    /\ hpc[a] = "clear"
    /\ Step(TerminalClear(Machine, a, ok))

\* terminal path: await clearSession() threw - clearSession has no try/catch
\* around its delete - so the handler's promise rejects and the handler never
\* reaches sessionManager.deleteSession(sessionId)
ClearSessionThrew(a) ==
    /\ hpc[a] = "clear"
    /\ Step([Machine EXCEPT !.hpc[a] = "idle"])

\* an event fed to a handle whose listeners were removed: no handler runs
DetachedEvents == {"connection.update", "creds.update", "messages.upsert"}

DetachedEvent(a, e) ==
    /\ sock[a] = "detached"
    /\ Step(Machine)

\* ---------------------------------------------------------------- logout
\* POST /:sessionId/logout, one request at a time. validateSession answers
\* 404 when the registry has no record; otherwise logout reads
\* { socket, clearSessionHandler } off the record and runs to its first await.
LogoutSync(m, sessionId) ==
    LET r == getSession(m.registry, sessionId) IN
    IF m.rec[r].socket
    THEN [m EXCEPT !.lo = [pc |-> "socketLogout", sid |-> sessionId, socket |-> r,
                           hook |-> m.rec[r].clearSessionHandler]]
    ELSE IF m.rec[r].clearSessionHandler
    THEN [m EXCEPT !.lo = [pc |-> "clear", sid |-> sessionId, socket |-> NoRec,
                           hook |-> TRUE]]
    ELSE [m EXCEPT !.registry = deleteSession(@, sessionId)]

LogoutStart(sessionId) ==
    /\ lo.pc = "idle"
    /\ getSession(registry, sessionId) # NoRec
    /\ Step(LogoutSync(Machine, sessionId))

LoggedOutUpdate ==
    [connection |-> "close", qr |-> NULL, statusCode |-> LoggedOut]

\* await socket.logout() settled. ended: the library sent the logout and
\* ended the handle, which emits 'close' with the loggedOut code to the
\* handle's listeners; otherwise logout() threw and the error is swallowed.
\* logout then calls the hook, or deletes the record if it read none.
AfterSocketLogout(m, ended) ==
    LET m1 == IF ended
              THEN OnConnectionUpdate(m, m.lo.socket, LoggedOutUpdate, TRUE)
              ELSE m
    IN  IF m.lo.hook
        THEN [m1 EXCEPT !.lo.pc = "clear"]
        ELSE [m1 EXCEPT !.lo = IdleLogout,
                        !.registry = deleteSession(@, m.lo.sid)]

SocketLogoutDone(ended) ==
    /\ lo.pc = "socketLogout"
    /\ (ended => sock[lo.socket] = "live")
    /\ Step(AfterSocketLogout(Machine, ended))

\* await clearSessionHandler() settled, then
\* sessionManager.deleteSession(req.params.sessionId) and the response
LogoutClear(m, ok) ==
    [ClearSession(m, m.lo.sid, ok) EXCEPT
        !.registry = deleteSession(@, m.lo.sid),
        !.lo = IdleLogout]

LogoutClearDone(ok) ==
    /\ lo.pc = "clear"
    /\ Step(LogoutClear(Machine, ok))

\* await clearSessionHandler() threw: logout's catch block answers 500 and
\* sessionManager.deleteSession is not reached
LogoutClearThrew ==
    /\ lo.pc = "clear"
    /\ Step([Machine EXCEPT !.lo = IdleLogout])

\* ------------------------------------------------------------- auto-heal
\* the predicate of the auto-heal sweep
NeedsHealing(m, sessionId) ==
    /\ m.registry[sessionId] # NoRec
    /\ m.rec[m.registry[sessionId]].connection \in {"close", "disconnected"}

\* sessionManager.forEach: connect() for every dead session
RECURSIVE HealAll(_, _)
HealAll(m, todo) ==
    IF todo = {} THEN m
    ELSE LET s == CHOOSE x \in todo : TRUE IN
         HealAll(IF NeedsHealing(m, s) THEN ConnectSync(m, s) ELSE m, todo \ {s})

AutoHeal ==
    /\ \E s \in Sessions : NeedsHealing(Machine, s)
    /\ Cardinality({ s \in Sessions : NeedsHealing(Machine, s) })
           <= Cardinality(FreeAttempts(Machine))
    /\ Step(HealAll(Machine, Sessions))

\* ------------------------------------------------------- HTTP queries
EndsWith(s, p) == Len(s) >= Len(p) /\ SubSeq(s, Len(s) - Len(p) + 1, Len(s)) = p

\* req.path of a route of the router: /:sessionId/<route>
Path(sessionId, route) == <<"/">> \o Chars(sessionId) \o <<"/">> \o Chars(route)

\* a validateSession that lets only /init through for an unknown session
validateSessionInitOnly(m, sessionId, route) ==
    LET session == getSession(m.registry, sessionId)
        path == Path(sessionId, route)
    IN  ~(/\ session = NoRec
          /\ ~EndsWith(path, <<"/">> \o Chars("init")))

\* validateSession: TRUE when it calls next(), FALSE when it answers 404
validateSession(m, sessionId, route) ==
    LET session == getSession(m.registry, sessionId)
        path == Path(sessionId, route)
    IN  ~(/\ session = NoRec
          /\ ~EndsWith(path, <<"/">> \o Chars("init"))
          /\ ~EndsWith(path, <<"/">> \o Chars("status"))
          /\ ~EndsWith(path, <<"/">> \o Chars("qr")))

\* res.status(404).json({ success: false, error: `Session '...' not found...` })
NotFound == [NoResponse EXCEPT !.code = 404, !.message = "Session not found"]

\* the catch block of a controller: res.status(500).json({ success: false, error })
ServerError == [NoResponse EXCEPT !.code = 500, !.message = "Failed"]

\* socket?.user: the account of the handle, known once the handle opened
SocketUser(r) ==
    IF r.socket /\ r.name # NULL THEN <<Chars(UserJid), r.name>> ELSE NULL

\* whatsappService.getConnectionStatus(socket, connectionState)
getConnectionStatus(r) ==
    [NoResponse EXCEPT
        !.status = r.connection,
        !.isConnected = (r.connection = "open"),
        !.phoneNumber = r.phoneNumber,
        !.hasQR = (r.qr # NULL),
        !.qr = r.qr,
        !.user = SocketUser(r)]

\* getStatus
getStatus(m, sessionId) ==
    LET session == getSession(m.registry, sessionId) IN
    IF session = NoRec
    THEN [NoResponse EXCEPT !.code = 200, !.success = TRUE, !.status = "disconnected"]
    ELSE [getConnectionStatus(m.rec[session]) EXCEPT !.code = 200, !.success = TRUE]

\* QRCode.toDataURL(qr)
QrImage(qr) == <<"d","a","t","a",":">> \o qr

\* a variant of getQrCode that takes an unknown session for an error
getQrCodeStrict(m, sessionId) ==
    LET session == getSession(m.registry, sessionId) IN
    IF session = NoRec THEN NotFound
    ELSE IF m.rec[session].qr = NULL
    THEN [NoResponse EXCEPT !.code = 200, !.message = "QR code not available yet"]
    ELSE [NoResponse EXCEPT !.pending = TRUE, !.of = session,
                            !.qrImage = QrImage(m.rec[session].qr)]

\* getQrCode up to await QRCode.toDataURL(connectionState.qr): an answer, or
\* the request waiting for the image
getQrCode(m, sessionId) ==
    LET session == getSession(m.registry, sessionId) IN
    IF session = NoRec
    THEN [NoResponse EXCEPT !.code = 200, !.message = "Session not initialized"]
    ELSE IF m.rec[session].qr = NULL
    THEN [NoResponse EXCEPT
             !.code = 200,
             !.message = IF m.rec[session].connection = "open"
                         THEN "Already connected, no QR needed"
                         ELSE "QR code not available yet"]
    ELSE [NoResponse EXCEPT !.pending = TRUE, !.of = session,
                            !.qrImage = QrImage(m.rec[session].qr)]

\* a request changes nothing but the answer
AnswerOnly ==
    UNCHANGED <<registry, rec, pc, sock, hpc, timers, table, userSessions, lo,
                cw, codec, sw, call, proc, disp>>

\* GET /:sessionId/status
StatusQuery(sessionId) ==
    /\ ~resp.pending
    /\ resp' = IF validateSession(Machine, sessionId, "status")
               THEN getStatus(Machine, sessionId) ELSE NotFound
    /\ AnswerOnly

\* GET /:sessionId/qr
QrQuery(sessionId) ==
    /\ ~resp.pending
    /\ resp' = IF validateSession(Machine, sessionId, "qr")
               THEN getQrCode(Machine, sessionId) ELSE NotFound
    /\ AnswerOnly

\* QRCode.toDataURL resolved (it does for the payloads a handle delivers):
\* the answer carries the image of the payload read before the await and the
\* payload the record holds now
QrImageDone ==
    /\ resp.pending
    /\ resp' = [NoResponse EXCEPT !.code = 200, !.success = TRUE,
                                  !.qr = rec[resp.of].qr,
                                  !.qrImage = resp.qrImage,
                                  !.message = "Scan this QR code with WhatsApp"]
    /\ AnswerOnly

\* POST /:sessionId/logout for a sessionId the registry does not hold:
\* validateSession answers; were it to call next(), logout would destructure
\* req.whatsappSession (null) and end in its catch block
LogoutAbsent(sessionId) ==
    /\ ~resp.pending
    /\ lo.pc = "idle"
    /\ getSession(registry, sessionId) = NoRec
    /\ resp' = IF validateSession(Machine, sessionId, "logout")
               THEN ServerError ELSE NotFound
    /\ AnswerOnly

\* ------------------------------------------------------ supervisor sweeps
\* the registry of the sweep specification, in insertion order
SweepIds == <<MainSession, UuidSession, "wa-bot-ai">>

\* what a sweep reads of a record: the status and whether a socket is stored
SweepRecords ==
    {[connection |-> "connecting", socket |-> FALSE],
     [connection |-> "connecting", socket |-> TRUE],
     [connection |-> "waiting_qr", socket |-> TRUE],
     [connection |-> "open", socket |-> TRUE],
     [connection |-> "close", socket |-> TRUE]}

\* The callbacks of the three sweeps. fails: the sessions whose sweep action
\* fails. A callback skips the session, does its action ("done"), absorbs the
\* failure ("failed"), or lets an exception out ("thrown").

\* an auto-heal that reconnects whatever is not 'open'
AutoHealCallbackNotOpen(session, sessionId, fails) ==
    IF session.connection # "open"
    THEN IF sessionId \in fails THEN "failed" ELSE "done"
    ELSE "skipped"

\* auto-heal: connectionService.connect(sessionId).catch(...); connect() is
\* an async function, a failure is a rejection its .catch takes
AutoHealCallback(session, sessionId, fails) ==
    IF session.connection = "close" \/ session.connection = "disconnected"
    THEN IF sessionId \in fails THEN "failed" ELSE "done"
    ELSE "skipped"

\* a keep-alive callback without try/catch
KeepAliveCallbackBare(session, sessionId, fails) ==
    IF session.socket /\ session.connection = "open"
    THEN IF sessionId \in fails THEN "thrown" ELSE "done"
    ELSE "skipped"

\* keep-alive: try { socket.sendPresenceUpdate('available') } catch { log }
KeepAliveCallback(session, sessionId, fails) ==
    IF session.socket /\ session.connection = "open"
    THEN IF sessionId \in fails THEN "failed" ELSE "done"
    ELSE "skipped"

\* a proactive callback that looks at the handle and the status only
ProactiveCallbackAnySession(session, sessionId, fails) ==
    IF session.socket /\ session.connection = "open"
    THEN IF sessionId \in fails THEN "failed" ELSE "done"
    ELSE "skipped"

\* proactive: an async callback; a failure of
\* checkAndSendProactiveMessage rejects the promise the callback returned
ProactiveCallback(session, sessionId, fails) ==
    IF /\ UUID_REGEX(Chars(sessionId)) \/ sessionId = "wa-bot-ai"
       /\ session.socket
       /\ session.connection = "open"
    THEN IF sessionId \in fails THEN "failed" ELSE "done"
    ELSE "skipped"

SweepCallback(kind, session, sessionId, fails) ==
    CASE kind = "autoHeal" -> AutoHealCallback(session, sessionId, fails)
      [] kind = "keepAlive" -> KeepAliveCallback(session, sessionId, fails)
      [] kind = "proactive" -> ProactiveCallback(session, sessionId, fails)

\* sessionManager.forEach(callback): Map.prototype.forEach calls the callback
\* entry by entry and stops at the first exception
RECURSIVE ForEach(_, _, _, _, _)
ForEach(kind, reg, fails, order, out) ==
    IF order = <<>> THEN out
    ELSE LET sessionId == Head(order)
             o == SweepCallback(kind, reg[sessionId], sessionId, fails)
         IN  IF o = "thrown" THEN [out EXCEPT ![sessionId] = o]
             ELSE ForEach(kind, reg, fails, Tail(order), [out EXCEPT ![sessionId] = o])

\* Map.prototype.set on the entry list of a Map: the value of an existing
\* key is replaced where it stands, a new key is appended
MapSet(entries, key, value) ==
    IF \E i \in 1..Len(entries) : entries[i].key = key
    THEN [i \in 1..Len(entries) |->
             IF entries[i].key = key THEN [key |-> key, value |-> value] ELSE entries[i]]
    ELSE Append(entries, [key |-> key, value |-> value])

\* The auto-heal sweep over the entry list of sessionManager.sessions.
\* Map.prototype.forEach walks the list as it is when each entry is reached.
\* The callback's connect(sessionId) runs, before it first awaits, past its
\* guard, ends the old socket and registers a new 'connecting' record with
\* setSession; what fails in it fails after that.
RECURSIVE HealEach(_, _, _, _)
HealEach(entries, i, fails, calls) ==
    IF i > Len(entries) THEN [entries |-> entries, calls |-> calls]
    ELSE LET sessionId == entries[i].key
             session == entries[i].value
         IN  IF AutoHealCallback(session, sessionId, fails) = "skipped"
             THEN HealEach(entries, i + 1, fails, calls)
             ELSE HealEach(
                      IF session.connection \in {"open", "connecting"} THEN entries
                      ELSE MapSet(entries, sessionId,
                                  [connection |-> "connecting", socket |-> FALSE]),
                      i + 1, fails, Append(calls, sessionId))

\* one firing of a sweep's interval
Sweep(kind, fails) ==
    LET entries == [i \in 1..Len(SweepIds) |->
                       [key |-> SweepIds[i], value |-> sw.reg[SweepIds[i]]]]
        out == ForEach(kind, sw.reg, fails, SweepIds, sw.out)
        healed == IF kind = "autoHeal" THEN HealEach(entries, 1, fails, <<>>)
                  ELSE [entries |-> entries,
                        calls |-> SelectSeq(SweepIds, LAMBDA s :
                                      out[s] \in {"done", "failed", "thrown"})]
    IN
    /\ sw.kind = "none"
    /\ sw' = [sw EXCEPT !.kind = kind, !.fails = fails,
                        !.out = out,
                        !.calls = healed.calls,
                        !.after = healed.entries]
    /\ UNCHANGED <<registry, rec, pc, sock, hpc, timers, table, userSessions, lo,
                   cw, codec, resp, call, proc, disp>>

AutoHealSweep(fails) == Sweep("autoHeal", fails)

KeepAliveSweep(fails) == Sweep("keepAlive", fails)

ProactiveSweep(fails) == Sweep("proactive", fails)

SweepIdSet == { SweepIds[i] : i \in 1..Len(SweepIds) }

\* a registry of three sessions, each in a state connect() and the handlers
\* leave a record in
InitSweep ==
    /\ registry = [s \in {MainSession} |-> NoRec]
    /\ timers = [s \in {MainSession} |-> 0]
    /\ rec = [a \in Attempts |-> NullRec]
    /\ pc = [a \in Attempts |-> "unused"]
    /\ sock = [a \in Attempts |-> "none"]
    /\ hpc = [a \in Attempts |-> "idle"]
    /\ table = [tbl \in TableNames |-> <<>>]
    /\ userSessions = {}
    /\ lo = IdleLogout
    /\ cw = IdleWrites
    /\ codec = IdleCodec
    /\ resp = NoResponse
    /\ call = IdleCall
    /\ proc = IdleProc
    /\ disp = IdleDispatch
    /\ \E reg \in [SweepIdSet -> SweepRecords] :
          sw = [kind |-> "none", reg |-> reg, fails |-> {},
                out |-> [s \in SweepIdSet |-> "unvisited"],
                calls |-> <<>>, after |-> <<>>]

NextSweep ==
    \/ \E fails \in SUBSET SweepIdSet : AutoHealSweep(fails)
    \/ \E fails \in SUBSET SweepIdSet : KeepAliveSweep(fails)
    \/ \E fails \in SUBSET SweepIdSet : ProactiveSweep(fails)

SpecSweep == InitSweep /\ [][NextSweep]_vars

\* ------------------------------------------------------ the SessionManager
\* SessionManager over the entry list of its Map `sessions`: entries in
\* insertion order, one per key.

\* Map.prototype.get: the value of the entry with the key, NullRec
\* (undefined) when there is none
MapGet(entries, key) ==
    IF \E i \in 1..Len(entries) : entries[i].key = key
    THEN entries[CHOOSE i \in 1..Len(entries) : entries[i].key = key].value
    ELSE NullRec

\* Map.prototype.delete
MapDelete(entries, key) == SelectSeq(entries, LAMBDA en : en.key # key)

\* getSession(sessionId): this.sessions.get(sessionId) || null; NullRec
\* stands for null
SessionOf(entries, sessionId) == MapGet(entries, sessionId)

\* setSession(sessionId, data)
WithSession(entries, sessionId, data) == MapSet(entries, sessionId, data)

\* a deleteSession that removes nothing
WithoutSessionKept(entries, sessionId) == entries

\* deleteSession(sessionId)
WithoutSession(entries, sessionId) == MapDelete(entries, sessionId)

\* getAllSessions(): { id, status, phone } of every entry, in Map order
getAllSessions(entries) ==
    [i \in 1..Len(entries) |->
        [id |-> entries[i].key,
         status |-> entries[i].value.connection,
         phone |-> entries[i].value.phoneNumber]]

\* get count(): this.sessions.size
count(entries) == Len(entries)

RegistryIds == {MainSession, UuidSession, "wa-bot-ai"}

\* the statuses connect() and the connection.update handler write
RegistryStatuses == {"connecting", "open", "close"}

\* the sessionData objects connect() registers for sessionId: 'connecting',
\* with the phone number of the record before it or null
NewSessionData(sessionId) ==
    { [NullRec EXCEPT !.sid = sessionId, !.connection = "connecting", !.phoneNumber = p] :
        p \in {NULL, <<"6", "2", "8">>} }

RegistryOnly ==
    UNCHANGED <<rec, pc, sock, hpc, timers, table, userSessions, lo, cw, codec,
                resp, sw, proc, disp>>

\* sessionManager.setSession(sessionId, sessionData)
SetSessionCall(sessionId, data) ==
    /\ registry' = WithSession(registry, sessionId, data)
    /\ call' = [IdleCall EXCEPT !.op = "setSession", !.sid = sessionId]
    /\ RegistryOnly

\* sessionManager.deleteSession(sessionId)
DeleteSessionCall(sessionId) ==
    /\ registry' = WithoutSession(registry, sessionId)
    /\ call' = [IdleCall EXCEPT !.op = "deleteSession", !.sid = sessionId]
    /\ RegistryOnly

\* sessionData.connectionState.connection = connection, on the object the
\* Map holds
StatusWrite(sessionId, connection) ==
    /\ SessionOf(registry, sessionId) # NullRec
    /\ registry' = [i \in 1..Len(registry) |->
                       IF registry[i].key = sessionId
                       THEN [registry[i] EXCEPT !.value.connection = connection]
                       ELSE registry[i]]
    /\ call' = [IdleCall EXCEPT !.op = "status", !.sid = sessionId]
    /\ RegistryOnly

InitRegistry ==
    /\ registry = <<>>
    /\ timers = [s \in {MainSession} |-> 0]
    /\ rec = [a \in Attempts |-> NullRec]
    /\ pc = [a \in Attempts |-> "unused"]
    /\ sock = [a \in Attempts |-> "none"]
    /\ hpc = [a \in Attempts |-> "idle"]
    /\ table = [tbl \in TableNames |-> <<>>]
    /\ userSessions = {}
    /\ lo = IdleLogout
    /\ cw = IdleWrites
    /\ codec = IdleCodec
    /\ IdleRest

NextRegistry ==
    \/ \E s \in RegistryIds : \E data \in NewSessionData(s) : SetSessionCall(s, data)
    \/ \E s \in RegistryIds : DeleteSessionCall(s)
    \/ \E s \in RegistryIds, c \in RegistryStatuses : StatusWrite(s, c)

SpecRegistry == InitRegistry /\ [][NextRegistry]_vars

\* --------------------------------------------------------- specification
\* rows earlier runs of the process left in a credential table
StoredRows(tbl) ==
    LET mine == { s \in SessionIds : TableName(s) = tbl } IN
    [k \in { Row(s, "auth", "creds") : s \in mine }
           \cup { Row(s, "pre-key", "1") : s \in mine } |-> 0]

\* the sets of sessionIds one run serves
Served == { {s} : s \in SessionIds }

Init ==
    /\ \E served \in Served :
          /\ registry = [s \in served |-> NoRec]
          /\ timers = [s \in served |-> 0]
    /\ rec = [a \in Attempts |-> NullRec]
    /\ pc = [a \in Attempts |-> "unused"]
    /\ sock = [a \in Attempts |-> "none"]
    /\ hpc = [a \in Attempts |-> "idle"]
    /\ table = [tbl \in TableNames |-> StoredRows(tbl)]
    /\ userSessions = {}
    /\ lo = IdleLogout
    /\ cw = IdleWrites
    /\ codec = IdleCodec
    /\ IdleRest

Next ==
    \/ \E s \in Sessions : InitSession(s)
    \/ \E s \in Sessions : TimerFire(s)
    \/ \E a \in Attempts : FetchDone(a)
    \/ \E a \in Attempts : FetchFail(a)
    \/ \E a \in Attempts : OpenFail(a)
    \/ \E a \in Attempts : LoadDone(a)
    \/ \E a \in Attempts, u \in Updates, stored \in BOOLEAN :
           ConnectionUpdate(a, u, stored)
    \/ \E a \in Attempts, ok \in BOOLEAN : RemoveUserSessionDone(a, ok)
    \/ \E a \in Attempts, ok \in BOOLEAN : ClearSessionDone(a, ok)
    \/ \E a \in Attempts : ClearSessionThrew(a)
    \/ \E a \in Attempts, e \in DetachedEvents : DetachedEvent(a, e)
    \/ \E s \in Sessions : LogoutStart(s)
    \/ \E ended \in BOOLEAN : SocketLogoutDone(ended)
    \/ \E ok \in BOOLEAN : LogoutClearDone(ok)
    \/ LogoutClearThrew
    \/ AutoHeal

Spec == Init /\ [][Next]_vars

\* the process with its status, QR and logout requests answered
NextHttp ==
    \/ Next
    \/ \E s \in Sessions : StatusQuery(s)
    \/ \E s \in Sessions : QrQuery(s)
    \/ QrImageDone
    \/ \E s \in Sessions : LogoutAbsent(s)

SpecHttp == Init /\ [][NextHttp]_vars

\* ------------------------------------------------ credential store calls
\* the sessionIds of the store specification: one table, ids that are
\* prefixes of each other, that hold LIKE wildcards, or the key separator
StoreIds == {"ab", "ab-x", "a_", "a%", "ab:x"}

\* the (type, id) pairs the adapter writes in the store specification
StoreKinds == {<<"auth", "creds">>, <<"pre-key", "1">>}

\* writeData(type, id, value) of sessionId's adapter settled: the upsert was
\* applied (ok) or answered with an error, which writeData logs
WriteData(sessionId, type, id, ok) ==
    /\ table' = IF ok
                THEN [table EXCEPT ![TableName(sessionId)] =
                         Upsert(@, Row(sessionId, type, id), 1)]
                ELSE table
    /\ UNCHANGED <<registry, rec, pc, sock, hpc, timers, userSessions, lo, cw, codec, resp, sw, call, proc, disp>>

\* .delete().eq('id', getKey(type, id))
RemoveRow(rows, sessionId, type, id) ==
    Restrict(rows, { k \in DOMAIN rows : RowId(k) # getKey(sessionId, type, id) })

\* removeData(type, id) of sessionId's adapter settled
RemoveData(sessionId, type, id) ==
    /\ table' = [table EXCEPT ![TableName(sessionId)] =
                    RemoveRow(@, sessionId, type, id)]
    /\ UNCHANGED <<registry, rec, pc, sock, hpc, timers, userSessions, lo, cw, codec, resp, sw, call, proc, disp>>

\* clearSession() of sessionId's adapter settled
ClearStored(sessionId, ok) ==
    /\ table' = ClearSession(Machine, sessionId, ok).table
    /\ UNCHANGED <<registry, rec, pc, sock, hpc, timers, userSessions, lo, cw, codec, resp, sw, call, proc, disp>>

\* the process before any session was started, over empty tables
InitStore ==
    /\ registry = [s \in {MainSession} |-> NoRec]
    /\ timers = [s \in {MainSession} |-> 0]
    /\ rec = [a \in Attempts |-> NullRec]
    /\ pc = [a \in Attempts |-> "unused"]
    /\ sock = [a \in Attempts |-> "none"]
    /\ hpc = [a \in Attempts |-> "idle"]
    /\ table = [tbl \in TableNames |-> <<>>]
    /\ userSessions = {}
    /\ lo = IdleLogout
    /\ cw = IdleWrites
    /\ codec = IdleCodec
    /\ IdleRest

NextStore ==
    \/ \E s \in StoreIds, k \in StoreKinds, ok \in BOOLEAN : WriteData(s, k[1], k[2], ok)
    \/ \E s \in StoreIds, k \in StoreKinds : RemoveData(s, k[1], k[2])
    \/ \E s \in StoreIds, ok \in BOOLEAN : ClearStored(s, ok)

SpecStore == InitStore /\ [][NextStore]_vars

\* ------------------------------------------------------------ binary codec
\* longest byte buffer among the codec inputs
MaxBufLen == 4
\* deepest nesting of arrays and objects among the codec inputs
MaxDepth == 6

\* JavaScript values: a tag and a payload. Strings are sequences of
\* characters, buffers sequences of bytes, arrays sequences of values, objects
\* sequences of <<key, value>> in insertion order.
JNull == <<"null", 0>>
JNum(n) == <<"num", n>>
JStr(s) == <<"str", s>>
JBuf(bytes) == <<"buf", bytes>>
JArr(items) == <<"arr", items>>
JObj(props) == <<"obj", props>>

JUndefined == <<"undefined", 0>>

\* obj[key]
Prop(props, key) ==
    IF \E i \in 1..Len(props) : props[i][1] = key
    THEN props[CHOOSE i \in 1..Len(props) : props[i][1] = key][2]
    ELSE JUndefined

\* the base64 alphabet
B64 ==
    <<"A","B","C","D","E","F","G","H","I","J","K","L","M","N","O","P",
      "Q","R","S","T","U","V","W","X","Y","Z","a","b","c","d","e","f",
      "g","h","i","j","k","l","m","n","o","p","q","r","s","t","u","v",
      "w","x","y","z","0","1","2","3","4","5","6","7","8","9","+","/">>

B64Char(n) == B64[n + 1]

\* buf.toString('base64')
RECURSIVE ToBase64(_)
ToBase64(b) ==
    IF b = <<>> THEN <<>>
    ELSE IF Len(b) = 1
    THEN <<B64Char(b[1] \div 4), B64Char((b[1] % 4) * 16), "=", "=">>
    ELSE IF Len(b) = 2
    THEN <<B64Char(b[1] \div 4), B64Char((b[1] % 4) * 16 + b[2] \div 16),
           B64Char((b[2] % 16) * 4), "=">>
    ELSE <<B64Char(b[1] \div 4), B64Char((b[1] % 4) * 16 + b[2] \div 16),
           B64Char((b[2] % 16) * 4 + b[3] \div 64), B64Char(b[3] % 64)>>
         \o ToBase64(SubSeq(b, 4, Len(b)))

\* the 6 bits a character stands for; Node also reads the URL-safe '-' and '_'
B64Value(c) ==
    IF c = "-" THEN 62
    ELSE IF c = "_" THEN 63
    ELSE (CHOOSE i \in 1..64 : B64[i] = c) - 1

IsB64(c) == c \in {"-", "_"} \/ \E i \in 1..64 : B64[i] = c

\* the characters Node's decoder reads: it stops at the first '=' and skips
\* what is not in the alphabet
RECURSIVE B64Digits(_)
B64Digits(s) ==
    IF s = <<>> \/ Head(s) = "=" THEN <<>>
    ELSE IF IsB64(Head(s)) THEN <<B64Value(Head(s))>> \o B64Digits(Tail(s))
    ELSE B64Digits(Tail(s))

\* four digits give three bytes, three give two, two give one
RECURSIVE FromDigits(_)
FromDigits(d) ==
    IF Len(d) < 2 THEN <<>>
    ELSE IF Len(d) = 2 THEN <<d[1] * 4 + d[2] \div 16>>
    ELSE IF Len(d) = 3
    THEN <<d[1] * 4 + d[2] \div 16, (d[2] % 16) * 16 + d[3] \div 4>>
    ELSE <<d[1] * 4 + d[2] \div 16, (d[2] % 16) * 16 + d[3] \div 4,
           (d[3] % 4) * 64 + d[4]>>
         \o FromDigits(SubSeq(d, 5, Len(d)))

\* Buffer.from(str, 'base64')
FromBase64(s) == FromDigits(B64Digits(s))

BufferStr == <<"B","u","f","f","e","r">>

\* bufferToBase64(obj)
RECURSIVE bufferToBase64(_)
bufferToBase64(obj) ==
    IF obj[1] = "buf"
    THEN JObj(<< <<"type", JStr(BufferStr)>>, <<"data", JStr(ToBase64(obj[2]))>> >>)
    ELSE IF obj[1] = "arr"
    THEN JArr([i \in 1..Len(obj[2]) |-> bufferToBase64(obj[2][i])])
    ELSE IF obj[1] = "obj"
    THEN JObj([i \in 1..Len(obj[2]) |->
                  <<obj[2][i][1], bufferToBase64(obj[2][i][2])>>])
    ELSE obj

\* base64ToBuffer(obj), for the JSON values the store returns: bufferToBase64
\* leaves no Buffer in its result
RECURSIVE base64ToBuffer(_)
base64ToBuffer(obj) ==
    IF obj[1] = "obj"
    THEN IF Prop(obj[2], "type") = JStr(BufferStr) /\ Prop(obj[2], "data")[1] = "str"
         THEN JBuf(FromBase64(Prop(obj[2], "data")[2]))
         ELSE JObj([i \in 1..Len(obj[2]) |->
                       <<obj[2][i][1], base64ToBuffer(obj[2][i][2])>>])
    ELSE IF obj[1] = "arr"
    THEN JArr([i \in 1..Len(obj[2]) |-> base64ToBuffer(obj[2][i])])
    ELSE obj

\* bytes the input buffers are made of: zero, the top value, two letters
Bytes == {0, 104, 255}

RECURSIVE SeqsUpTo(_, _)
SeqsUpTo(S, n) ==
    IF n = 0 THEN {<<>>}
    ELSE LET shorter == SeqsUpTo(S, n - 1) IN
         shorter \cup { Append(q, x) : q \in shorter, x \in S }

Buffers == { JBuf(b) : b \in SeqsUpTo(Bytes, MaxBufLen) }

Strings ==
    { JStr(s) : s \in {<<>>, <<"x">>, BufferStr, <<"a","G","k","=">>, <<"a","G","k">>} }

Scalars == {JNull, JNum(0), JNum(7)} \cup Strings

Keys == {"a", "type", "data"}

\* one value in an array, or under one key; or an object of the two keys
\* 'type' and 'data'
Wrap(v) == {JArr(<<v>>)} \cup { JObj(<< <<k, v>> >>) : k \in Keys }

TypeData(S) ==
    { JObj(<< <<"type", x>>, <<"data", y>> >>) : x \in S, y \in S }

\* v under n levels of arrays and objects, alternating
RECURSIVE Nest(_, _)
Nest(v, n) ==
    IF n = 0 THEN v
    ELSE IF n % 2 = 0 THEN JArr(<<Nest(v, n - 1), JNull>>)
    ELSE JObj(<< <<"a", Nest(v, n - 1)>>, <<"n", JNum(n)>> >>)

Shallow ==
    Scalars \cup Buffers \cup {JArr(<<>>), JObj(<<>>)}
        \cup UNION { Wrap(v) : v \in Scalars \cup {JBuf(<<>>), JBuf(<<104, 255>>)} }
        \cup TypeData(Strings)

CodecInputs ==
    Shallow \cup { Nest(v, n) : v \in {JNull, JBuf(<<>>), JBuf(<<0, 104, 255>>),
                                       JArr(<<>>), JObj(<<>>)},
                                n \in 1..MaxDepth }

\* value = bufferToBase64(v)
Encode ==
    /\ codec.phase = "value"
    /\ codec' = [codec EXCEPT !.phase = "encoded", !.enc = bufferToBase64(codec.v)]
    /\ UNCHANGED <<registry, rec, pc, sock, hpc, timers, table, userSessions, lo, cw, resp, sw, call, proc, disp>>

\* base64ToBuffer(value)
Decode ==
    /\ codec.phase = "encoded"
    /\ codec' = [codec EXCEPT !.phase = "decoded", !.dec = base64ToBuffer(codec.enc)]
    /\ UNCHANGED <<registry, rec, pc, sock, hpc, timers, table, userSessions, lo, cw, resp, sw, call, proc, disp>>

InitCodec ==
    /\ registry = [s \in {MainSession} |-> NoRec]
    /\ timers = [s \in {MainSession} |-> 0]
    /\ rec = [a \in Attempts |-> NullRec]
    /\ pc = [a \in Attempts |-> "unused"]
    /\ sock = [a \in Attempts |-> "none"]
    /\ hpc = [a \in Attempts |-> "idle"]
    /\ table = [tbl \in TableNames |-> <<>>]
    /\ userSessions = {}
    /\ lo = IdleLogout
    /\ cw = IdleWrites
    /\ IdleRest
    /\ \E v \in CodecInputs :
          codec = [phase |-> "value", v |-> v, enc |-> JNull, dec |-> JNull]

NextCodec == Encode \/ Decode

SpecCodec == InitCodec /\ [][NextCodec]_vars

\* ------------------------------------------------------ credential writes
\* socket.ev.on('creds.update', saveCreds) of the handle of cw.sid: the
\* library has merged the update into creds (cw.creds counts the versions),
\* saveCreds calls writeData('auth', 'creds', creds), which takes the snapshot
\* bufferToBase64(creds) and hands the upsert to the client. Nothing awaits
\* the promise saveCreds returns.
CredsUpdate ==
    /\ Len(cw.status) < MaxCredsEvents
    /\ sock[registry[cw.sid]] = "live"
    /\ cw' = [cw EXCEPT !.creds = @ + 1,
                        !.status = Append(@, [snapshot |-> cw.creds + 1,
                                              st |-> "inflight"])]
    /\ UNCHANGED <<registry, rec, pc, sock, hpc, timers, table, userSessions, lo, codec, resp, sw, call, proc, disp>>

\* the store applied the upsert of the i-th event and answered
UpsertApplied(i) ==
    /\ i \in 1..Len(cw.status)
    /\ cw.status[i].st = "inflight"
    /\ table' = [table EXCEPT ![TableName(cw.sid)] =
                    Upsert(@, CredsRow(cw.sid), cw.status[i].snapshot)]
    /\ cw' = [cw EXCEPT !.status[i].st = "applied"]
    /\ UNCHANGED <<registry, rec, pc, sock, hpc, timers, userSessions, lo, codec, resp, sw, call, proc, disp>>

\* the upsert of the i-th event failed; writeData logs the error
UpsertFailed(i) ==
    /\ i \in 1..Len(cw.status)
    /\ cw.status[i].st = "inflight"
    /\ cw' = [cw EXCEPT !.status[i].st = "failed"]
    /\ UNCHANGED <<registry, rec, pc, sock, hpc, timers, table, userSessions, lo, codec, resp, sw, call, proc, disp>>

\* a session whose first connect() wired its handle and whose handle opened
InitCreds ==
    /\ \E s \in SessionIds :
          /\ registry = [x \in {s} |-> 1]
          /\ timers = [x \in {s} |-> 0]
          /\ rec = [a \in Attempts |->
                       IF a = 1
                       THEN [sid |-> s, socket |-> TRUE, clearSessionHandler |-> TRUE,
                             connection |-> "open", qr |-> NULL,
                             phoneNumber |-> SplitHead(Chars(UserJid)),
                             name |-> UserName]
                       ELSE NullRec]
          /\ userSessions = IF UUID_REGEX(Chars(s))
                            THEN upsertUserSession({}, s, UserJid) ELSE {}
          /\ cw = [sid |-> s, creds |-> 0, status |-> <<>>]
    /\ pc = [a \in Attempts |-> IF a = 1 THEN "wired" ELSE "unused"]
    /\ sock = [a \in Attempts |-> IF a = 1 THEN "live" ELSE "none"]
    /\ hpc = [a \in Attempts |-> "idle"]
    /\ table = [tbl \in TableNames |-> StoredRows(tbl)]
    /\ lo = IdleLogout
    /\ codec = IdleCodec
    /\ IdleRest

NextCreds ==
    \/ CredsUpdate
    \/ \E i \in 1..MaxCredsEvents : UpsertApplied(i)
    \/ \E i \in 1..MaxCredsEvents : UpsertFailed(i)

SpecCreds == InitCreds /\ [][NextCreds]_vars

\* ------------------------------------------- the adapter the transport uses
\* how a call to the Supabase client ends: a result, a returned { error },
\* or an exception
Outcomes == {"ok", "error", "throws"}

\* the closure useSupabaseAuthState(sessionId) builds: every operation of it
\* reads the sessionId and the TABLE_NAME computed at its top
Adapter(sessionId) == [sessionId |-> sessionId, TABLE_NAME |-> TableName(sessionId)]

\* !value
Falsy(v) == v \in {JNull, JUndefined, JNum(0), JStr(<<>>)}

\* an exception on its way to the caller
Thrown == <<"thrown", 0>>

\* the rows .eq('id', key) selects
RowsWithId(rows, key) == { k \in DOMAIN rows : RowId(k) = key }

\* a readData without try/catch
readDataBare(rows, ad, type, id, outcome) ==
    LET found == RowsWithId(rows, getKey(ad.sessionId, type, id)) IN
    IF outcome = "throws" THEN Thrown
    ELSE IF outcome = "error" \/ found = {} THEN JNull
    ELSE LET k == CHOOSE x \in found : TRUE IN
         IF Falsy(rows[k]) THEN JNull ELSE base64ToBuffer(rows[k])

\* readData(type, id): .select('value').eq('id', key).single(); null on an
\* error (single() reports a missing row as one), on no value, or on an
\* exception
readData(rows, ad, type, id, outcome) ==
    LET found == RowsWithId(rows, getKey(ad.sessionId, type, id)) IN
    IF outcome # "ok" \/ found = {} THEN JNull
    ELSE LET k == CHOOSE x \in found : TRUE IN
         IF Falsy(rows[k]) THEN JNull ELSE base64ToBuffer(rows[k])

\* initAuthCreds()
FreshCreds == JObj(<< <<"registered", JNum(0)>>, <<"noiseKey", JBuf(<<7>>)>> >>)

\* the credentials an earlier run stored
PairedCreds == JObj(<< <<"registered", JNum(1)>>, <<"noiseKey", JBuf(<<1, 2, 3>>)>> >>)

\* a signal key
KeyValue == JObj(<< <<"keyPair", JBuf(<<0, 255>>)>> >>)

\* the key ids signal keys are stored under
KeyIds == {"1", "2", "ab:x", "x"}

\* the id a string of characters spells
IdNamed(cs) == CHOOSE id \in KeyIds : Chars(id) = cs

\* row.id.split(':').pop()
LastSegment(cs) ==
    LET colons == { i \in 1..Len(cs) : cs[i] = ":" } IN
    IF colons = {} THEN cs
    ELSE SubSeq(cs, (CHOOSE i \in colons : \A j \in colons : j <= i) + 1, Len(cs))

\* an id taken from the last segment of row.id whatever its prefix
OriginalIdLastSegment(ad, type, rowId) == IdNamed(LastSegment(rowId))

\* the original id of a row readDataBatch got back: row.id without the
\* prefix `${sessionId}:${type}:` when it starts with it, else its last
\* ':'-separated segment
OriginalId(ad, type, rowId) ==
    LET prefix == Chars(ad.sessionId) \o Colon \o Chars(type) \o Colon IN
    IF StartsWith(rowId, prefix)
    THEN IdNamed(SubSeq(rowId, Len(prefix) + 1, Len(rowId)))
    ELSE IdNamed(LastSegment(rowId))

\* readDataBatch(type, ids): .select('id, value').in('id', keys); {} on an
\* error or an exception, else results[id] = base64ToBuffer(row.value) for
\* every row that came back, under the id reconstructed from row.id
readDataBatch(rows, ad, type, ids, outcome) ==
    IF outcome # "ok" THEN JObj(<<>>)
    ELSE LET keys == [i \in 1..Len(ids) |-> getKey(ad.sessionId, type, ids[i])]
             data == SelectSeq(keys, LAMBDA key : RowsWithId(rows, key) # {})
         IN  JObj([i \in 1..Len(data) |->
                 <<OriginalId(ad, type, data[i]),
                   base64ToBuffer(rows[CHOOSE k \in RowsWithId(rows, data[i]) : TRUE])>>])

\* what a call gave its caller, and how the storage call it made ended
Called(ad, op, outcome, result, value) ==
    [op |-> op, sid |-> ad.sessionId, table |-> ad.TABLE_NAME,
     failure |-> IF outcome = "ok" THEN "none" ELSE outcome,
     result |-> result, value |-> value]

AdapterOnly ==
    UNCHANGED <<registry, rec, pc, sock, hpc, timers, userSessions, lo, codec,
                resp, sw, proc, disp>>

\* let creds = await readData('auth', 'creds'); if (!creds) creds = initAuthCreds()
Bootstrap(sessionId, outcome) ==
    LET ad == Adapter(sessionId)
        read == readData(table[ad.TABLE_NAME], ad, "auth", "creds", outcome)
    IN  /\ call' = IF read = Thrown
                   THEN Called(ad, "bootstrap", outcome, "rejected", JNull)
                   ELSE Called(ad, "bootstrap", outcome, "resolved",
                               IF Falsy(read) THEN FreshCreds ELSE read)
        /\ UNCHANGED table
        /\ cw' = IF read = Thrown THEN cw
                 ELSE [sid |-> sessionId, status |-> <<>>,
                       creds |-> IF Falsy(read) THEN FreshCreds ELSE read]
        /\ AdapterOnly

\* state.keys.get(type, ids), for a type other than app-state-sync-key
KeysGet(sessionId, type, ids, outcome) ==
    LET ad == Adapter(sessionId) IN
    /\ call' = Called(ad, "keys.get", outcome, "resolved",
                      readDataBatch(table[ad.TABLE_NAME], ad, type, ids, outcome))
    /\ UNCHANGED table
    /\ UNCHANGED cw
    /\ AdapterOnly

\* the batches state.keys.set(data) hands over: <<type, id, value>>, null
\* for a key to delete
KeyBatches ==
    {<< <<"pre-key", "1", KeyValue>> >>,
     << <<"pre-key", "1", JNull>> >>,
     << <<"pre-key", "1", KeyValue>>, <<"pre-key", "2", JNull>> >>,
     << <<"pre-key", "1", JNull>>, <<"pre-key", "2", KeyValue>> >>,
     << <<"pre-key", "ab:x", JObj(<< <<"keyPair", JBuf(<<9>>)>> >>)>> >>}

RECURSIVE UpsertAll(_, _, _)
UpsertAll(rows, ad, entries) ==
    IF entries = <<>> THEN rows
    ELSE UpsertAll(Upsert(rows, Row(ad.sessionId, Head(entries)[1], Head(entries)[2]),
                          bufferToBase64(Head(entries)[3])),
                   ad, Tail(entries))

\* a batch delete that takes every row of the session
DeleteAllOfSession(rows, ad, entries) == ClearSessionRows(rows, ad.sessionId)

\* .delete().in('id', deletes)
DeleteAll(rows, ad, entries) ==
    Restrict(rows, { k \in DOMAIN rows :
        \A i \in 1..Len(entries) :
            RowId(k) # getKey(ad.sessionId, entries[i][1], entries[i][2]) })

\* state.keys.set(data): the batch upsert, then the batch delete, neither
\* inside try/catch; a returned error is logged. Nothing else touches the
\* table between the two calls here, so they are one step.
KeysSet(sessionId, data, upsertOutcome, deleteOutcome) ==
    LET ad == Adapter(sessionId)
        upserts == SelectSeq(data, LAMBDA x : ~Falsy(x[3]))
        deletes == SelectSeq(data, LAMBDA x : Falsy(x[3]))
        upsertThrew == upserts # <<>> /\ upsertOutcome = "throws"
        deleteThrew == ~upsertThrew /\ deletes # <<>> /\ deleteOutcome = "throws"
        rows1 == IF upserts # <<>> /\ upsertOutcome = "ok"
                 THEN UpsertAll(table[ad.TABLE_NAME], ad, upserts)
                 ELSE table[ad.TABLE_NAME]
        rows2 == IF ~upsertThrew /\ deletes # <<>> /\ deleteOutcome = "ok"
                 THEN DeleteAll(rows1, ad, deletes)
                 ELSE rows1
        failure == IF upserts # <<>> /\ upsertOutcome # "ok" THEN upsertOutcome
                   ELSE IF deletes # <<>> /\ deleteOutcome # "ok" THEN deleteOutcome
                   ELSE "ok"
    IN  /\ (upserts = <<>> => upsertOutcome = "ok")
        /\ ((deletes = <<>> \/ upsertThrew) => deleteOutcome = "ok")
        /\ table' = [table EXCEPT ![ad.TABLE_NAME] = rows2]
        /\ call' = Called(ad, "keys.set", failure,
                          IF upsertThrew \/ deleteThrew THEN "rejected" ELSE "resolved",
                          JNull)
        /\ UNCHANGED cw
        /\ AdapterOnly

\* saveCreds, the creds.update listener: writeData('auth', 'creds', creds)
\* with the creds object bootstrap gave the transport, as the transport has
\* it now; writeData's try/catch takes both a returned error and an exception
SaveCreds(sessionId, outcome) ==
    LET ad == Adapter(sessionId) IN
    /\ cw.sid = sessionId
    /\ table' = IF outcome = "ok"
                THEN [table EXCEPT ![ad.TABLE_NAME] =
                         Upsert(@, CredsRow(ad.sessionId), bufferToBase64(cw.creds))]
                ELSE table
    /\ call' = Called(ad, "saveCreds", outcome,
                      "resolved", JNull)
    /\ UNCHANGED cw
    /\ AdapterOnly

\* removeData(type, id): the delete inside try/catch, its result not looked at
RemoveOne(sessionId, type, id, outcome) ==
    LET ad == Adapter(sessionId) IN
    /\ table' = IF outcome = "ok"
                THEN [table EXCEPT ![ad.TABLE_NAME] = RemoveRow(@, ad.sessionId, type, id)]
                ELSE table
    /\ call' = Called(ad, "removeData", outcome,
                      "resolved", JNull)
    /\ UNCHANGED cw
    /\ AdapterOnly

\* clearSession(): the delete is not inside try/catch
ClearAll(sessionId, outcome) ==
    LET ad == Adapter(sessionId) IN
    /\ table' = IF outcome = "ok"
                THEN [table EXCEPT ![ad.TABLE_NAME] = ClearSessionRows(@, ad.sessionId)]
                ELSE table
    /\ call' = Called(ad, "clearSession", outcome,
                      IF outcome = "throws" THEN "rejected" ELSE "resolved", JNull)
    /\ UNCHANGED cw
    /\ AdapterOnly

\* the sessionIds of the adapter specification
AdapterIds == {MainSession, UuidSession, "wa-bot-ai"}

\* the tables as earlier runs left them: empty, or holding every session's
\* credentials and one key
AdapterRows(tbl, stored) ==
    LET mine == { s \in AdapterIds : stored /\ TableName(s) = tbl } IN
    [k \in { Row(s, "auth", "creds") : s \in mine } \cup { Row(s, "pre-key", "1") : s \in mine }
        |-> IF k.type = "auth" THEN bufferToBase64(PairedCreds)
            ELSE bufferToBase64(KeyValue)]

InitAdapter ==
    /\ registry = [s \in {MainSession} |-> NoRec]
    /\ timers = [s \in {MainSession} |-> 0]
    /\ rec = [a \in Attempts |-> NullRec]
    /\ pc = [a \in Attempts |-> "unused"]
    /\ sock = [a \in Attempts |-> "none"]
    /\ hpc = [a \in Attempts |-> "idle"]
    /\ \E stored \in BOOLEAN : table = [tbl \in TableNames |-> AdapterRows(tbl, stored)]
    /\ userSessions = {}
    /\ lo = IdleLogout
    /\ cw = [sid |-> NoSession, creds |-> JNull, status |-> <<>>]
    /\ codec = IdleCodec
    /\ IdleRest

\* the ids a keys.get asks for
IdLists == {<<"1">>, <<"1", "2">>, <<"ab:x", "1">>, <<"x", "ab:x">>}

\* one adapter, of any session, makes the calls of a behaviour
Uses(sessionId) == call.sid \in {NoSession, sessionId}

NextAdapter ==
    \/ \E s \in AdapterIds, o \in Outcomes : Uses(s) /\ Bootstrap(s, o)
    \/ \E s \in AdapterIds, ids \in IdLists, o \in Outcomes :
           Uses(s) /\ KeysGet(s, "pre-key", ids, o)
    \/ \E s \in AdapterIds, data \in KeyBatches, uo \in Outcomes, do \in Outcomes :
           Uses(s) /\ KeysSet(s, data, uo, do)
    \/ \E s \in AdapterIds, o \in Outcomes : Uses(s) /\ SaveCreds(s, o)
    \/ \E s \in AdapterIds, o \in Outcomes : Uses(s) /\ RemoveOne(s, "pre-key", "1", o)
    \/ \E s \in AdapterIds, o \in Outcomes : Uses(s) /\ ClearAll(s, o)

SpecAdapter == InitAdapter /\ [][NextAdapter]_vars

\* ------------------------------------------------- messages.upsert handler
MaxBatch == 3

\* the sessionIds whose handles deliver messages
DispatchIds == {MainSession, UuidSession, "wa-bot-ai", "CS-BOT"}

\* a message: msg.key.fromMe, and whether the responder throws on it
Messages == [fromMe : BOOLEAN, throws : BOOLEAN]

Batches == UNION { [1..n -> Messages] : n \in 0..MaxBatch }

\* the responder the handler calls for a sessionId, "none" when it calls none
Responder(sessionId) ==
    IF sessionId = "wa-bot-ai" THEN "ai"
    ELSE IF sessionId = "CS-BOT" THEN "cs"
    ELSE "none"

\* a loop body without try/catch
DispatchOneBare(sessionId, msg, k) ==
    IF msg.fromMe \/ Responder(sessionId) = "none" THEN <<>>
    ELSE << [msg |-> k, to |-> Responder(sessionId),
             result |-> IF msg.throws THEN "thrown" ELSE "done"] >>

\* the body of the for loop for message k of the batch: the calls it makes
DispatchOne(sessionId, msg, k) ==
    IF msg.fromMe \/ Responder(sessionId) = "none" THEN <<>>
    ELSE << [msg |-> k, to |-> Responder(sessionId),
             result |-> IF msg.throws THEN "caught" ELSE "done"] >>

\* for (const msg of messages): each call is awaited before the next message
\* is looked at; an exception that leaves the body ends the loop
RECURSIVE DispatchAll(_, _, _, _)
DispatchAll(sessionId, messages, k, calls) ==
    IF k > Len(messages) THEN calls
    ELSE LET c == DispatchOne(sessionId, messages[k], k) IN
         IF c # <<>> /\ c[1].result = "thrown" THEN calls \o c
         ELSE DispatchAll(sessionId, messages, k + 1, calls \o c)

\* socket.ev.on('messages.upsert', ...) of the handle connect(sessionId) wired
MessagesUpsert(sessionId, type, messages) ==
    /\ disp' = [sid |-> sessionId, type |-> type, batch |-> messages,
                out |-> IF type = "notify"
                        THEN DispatchAll(sessionId, messages, 1, <<>>) ELSE <<>>]
    /\ UNCHANGED <<registry, rec, pc, sock, hpc, timers, table, userSessions, lo,
                   cw, codec, resp, sw, call, proc>>

NextDispatch ==
    \E s \in DispatchIds, type \in {"notify", "append"}, messages \in Batches :
        MessagesUpsert(s, type, messages)

SpecDispatch == Init /\ [][NextDispatch]_vars

\* ------------------------------------------------------------ the process
\* The two server entry points of the repository: the current one registers
\* SIGINT and SIGTERM handlers only; the earlier one also registers
\* process.on('uncaughtException') - which logs and calls process.exit(1) -
\* and process.on('unhandledRejection'), which logs.
Servers == {"current", "earlier"}

Raised == {"uncaughtException", "unhandledRejection"}

\* What the process does with a failure nothing caught. Without a handler
\* Node ends the process on an uncaught exception; on an unhandled rejection
\* it ends the process or prints a warning, by the runtime's version
\* (nodeThrows).
TopLevel(server, raised, nodeThrows) ==
    IF server = "earlier"
    THEN [state |-> IF raised = "uncaughtException" THEN "exited" ELSE "running",
          server |-> server, raised |-> raised, logged |-> TRUE]
    ELSE [state |-> IF raised = "uncaughtException" \/ nodeThrows
                    THEN "exited" ELSE "running",
          server |-> server, raised |-> raised, logged |-> FALSE]

\* a failure leaves a handler, a timer callback or a promise nobody awaits;
\* a process that exits takes its registry, timers and handles with it
Raise(server, raised, nodeThrows) ==
    LET after == TopLevel(server, raised, nodeThrows) IN
    /\ proc.state = "running"
    /\ proc.server \in {"none", server}
    /\ (raised = "uncaughtException" \/ server = "earlier" => ~nodeThrows)
    /\ proc' = after
    /\ IF after.state = "exited"
       THEN /\ registry' = [s \in Sessions |-> NoRec]
            /\ timers' = [s \in Sessions |-> 0]
            /\ sock' = [a \in Attempts |-> IF sock[a] = "none" THEN "none" ELSE "closed"]
            /\ pc' = [a \in Attempts |-> IF pc[a] = "unused" THEN "unused" ELSE "caught"]
            /\ hpc' = [a \in Attempts |-> "idle"]
            /\ lo' = IdleLogout
       ELSE UNCHANGED <<registry, timers, sock, pc, hpc, lo>>
    /\ UNCHANGED <<rec, table, userSessions, cw, codec, resp, sw, call, disp>>

NextProcess ==
    \/ proc.state = "running" /\ Next
    \/ \E server \in Servers, raised \in Raised, nodeThrows \in BOOLEAN :
           Raise(server, raised, nodeThrows)

SpecProcess == Init /\ [][NextProcess]_vars

\* ================================================================ claims
\* the attempts of connect(sessionId)
AttemptsOf(sessionId) == { a \in Attempts : pc[a] # "unused" /\ rec[a].sid = sessionId }

\* a handle that was opened, was not told to end and still has its listeners
LiveHandles(sessionId) == { a \in AttemptsOf(sessionId) : sock[a] = "live" }

\* C1: in every reachable state, each sessionId has at most one live
\* transport handle (opened, not told to end, listeners attached).
AtMostOneLiveHandle ==
    \A s \in Sessions : Cardinality(LiveHandles(s)) <= 1

\* the attempts of connect(sessionId) that are suspended at an await
InFlight(sessionId) == { a \in AttemptsOf(sessionId) : pc[a] \in {"fetch", "load"} }

\* C2: at any time at most one connect(sessionId) is between its guard and
\* the creation of its handle, so a later call made meanwhile opens no
\* transport.
AtMostOneAttemptInFlight ==
    \A s \in Sessions : Cardinality(InFlight(s)) <= 1

\* the user_sessions rows that map sessionId to an identity
MappingOf(rows, sessionId) == { r \in rows : r.user_id = sessionId }

IsLoggedOutClose(u) == u.connection = "close" /\ u.statusCode = LoggedOut

\* C3: a 'close' update with the loggedOut code is terminal: it schedules no
\* reconnect; once the handler's removeUserSession went through, a UUID
\* sessionId has no session-to-identity mapping; once its clearSession went
\* through, the sessionId has no credential row and no registry entry.
LoggedOutIsTerminal ==
    [][\A a \in Attempts :
          /\ (\E u \in Updates : IsLoggedOutClose(u) /\ ConnectionUpdate(a, u, TRUE))
                => timers' = timers
          /\ RemoveUserSessionDone(a, TRUE)
                => MappingOf(userSessions', rec[a].sid) = {}
          /\ ClearSessionDone(a, TRUE)
                => /\ RowsOf(table'[TableName(rec[a].sid)], rec[a].sid) = {}
                   /\ registry'[rec[a].sid] = NoRec
                   /\ timers' = timers]_vars

\* C4: a 'close' update with any other status code, or with none, schedules
\* exactly one delayed connect(sessionId), deletes no credential row, keeps
\* the registry entry and starts no terminal path.
OtherCloseReconnects ==
    [][\A a \in Attempts :
          (sock[a] = "live" /\ sock'[a] = "closed")
          => \A u \in Updates :
                (u.connection = "close" /\ u.statusCode # LoggedOut
                    /\ ConnectionUpdate(a, u, TRUE))
                => /\ timers' = [timers EXCEPT ![rec[a].sid] = @ + 1]
                   /\ table' = table
                   /\ registry' = registry
                   /\ hpc' = hpc]_vars

\* C4 witness: a handle of the registry's record closed without the
\* loggedOut code: the record says 'close', a timer is pending, the rows stay.
OtherCloseSeen ==
    \E a \in Attempts :
        /\ pc[a] = "wired" /\ sock[a] = "closed" /\ hpc[a] = "idle"
        /\ registry[rec[a].sid] = a
        /\ rec[a].connection = "close"
        /\ timers[rec[a].sid] = 1
        /\ RowsOf(table[TableName(rec[a].sid)], rec[a].sid) # {}

\* C5: an attempt of connect() that stops short of wiring its handle ends in
\* the catch block - connect() resolves - and exactly one retry timer is
\* added for it.
ConnectFailureIsCaught ==
    [][\A a \in Attempts :
          (pc[a] \in {"fetch", "load"} /\ pc'[a] \notin {"fetch", "load", "wired"})
          => /\ pc'[a] = "caught"
             /\ timers' = [timers EXCEPT ![rec[a].sid] = @ + 1]]_vars

\* C5 witness: an attempt failed after useSupabaseAuthState (the hook is
\* stored, no handle) and its retry is pending.
ConnectFailureSeen ==
    \E a \in Attempts :
        /\ pc[a] = "caught"
        /\ registry[rec[a].sid] = a
        /\ rec[a].clearSessionHandler /\ ~rec[a].socket
        /\ timers[rec[a].sid] = 1

\* a record connect() replaced after cleaning up the handle it held
Superseded(a) ==
    /\ pc[a] = "wired"
    /\ ~rec[a].socket
    /\ sock[a] \in {"live", "detached"}

\* an event of attempt a's handle
EventOf(a) ==
    \/ \E e \in DetachedEvents : DetachedEvent(a, e)
    \/ \E u \in Updates, stored \in BOOLEAN : ConnectionUpdate(a, u, stored)

\* C6: clearSession of a session s deletes every row written under s and
\* leaves the rows, and their values, of every other sessionId as they were.
ClearSessionIsExact ==
    [][\A s \in StoreIds :
          ClearStored(s, TRUE)
          => \A tbl \in TableNames :
                /\ RowsOf(table'[tbl], s) = {}
                /\ \A t \in StoreIds \ {s} :
                      /\ RowsOf(table'[tbl], t) = RowsOf(table[tbl], t)
                      /\ \A k \in RowsOf(table[tbl], t) : table'[tbl][k] = table[tbl][k]]_vars

\* C7: base64ToBuffer(bufferToBase64(v)) is deeply equal to v.
RoundTrip ==
    codec.phase = "decoded" => codec.dec = codec.v

\* C8: once the writes of two or more creds.update events have all been
\* applied, the 'auth:creds' row holds the snapshot taken for the last event.
LastSnapshotWins ==
    (/\ Len(cw.status) >= 2
     /\ \A i \in 1..Len(cw.status) : cw.status[i].st = "applied")
    => table[TableName(cw.sid)][CredsRow(cw.sid)] = cw.status[Len(cw.status)].snapshot

\* C9: an event the old handle emits after connect() superseded its record
\* changes neither the registry, nor the record the registry holds, nor the
\* pending timers.
SupersededHandleIsInert ==
    [][\A a \in Attempts :
          (Superseded(a) /\ EventOf(a))
          => /\ registry' = registry
             /\ timers' = timers
             /\ \A s \in Sessions :
                   registry[s] # NoRec => rec'[registry[s]] = rec[registry[s]]]_vars

\* C9 witness: connect() superseded a record whose handle had delivered a QR
\* payload or a close; the old handle is deaf and a new record is registered.
SupersededSeen ==
    \E a \in Attempts :
        /\ Superseded(a)
        /\ sock[a] = "detached"
        /\ registry[rec[a].sid] \notin {a, NoRec}

\* the registry's record for sessionId is 'open' or 'connecting'
Busy(sessionId) ==
    /\ registry[sessionId] # NoRec
    /\ rec[registry[sessionId]].connection \in {"open", "connecting"}

\* C10: connect(sessionId) called (by a request or by a retry timer) while
\* the record is 'open' or 'connecting' changes nothing: registry, records,
\* attempts, handles, handlers, credential rows, mappings; of the timers only
\* the one that fired is gone.
BusyConnectIsNoOp ==
    [][\A s \in Sessions :
          (Busy(s) /\ (InitSession(s) \/ TimerFire(s)))
          => /\ UNCHANGED <<registry, rec, pc, sock, hpc, table, userSessions, lo>>
             /\ \/ timers' = timers
                \/ timers' = [timers EXCEPT ![s] = @ - 1]]_vars

\* C10 witness: the first attempt failed while its record said 'connecting',
\* its retry timer fired, and connect() returned at the guard: no second
\* attempt exists and no timer is left.
BusyConnectSeen ==
    \E s \in Sessions :
        /\ pc[1] = "caught" /\ rec[1].sid = s
        /\ \A a \in Attempts \ {1} : pc[a] = "unused"
        /\ Busy(s) /\ registry[s] = 1
        /\ timers[s] = 0

\* C11: a logout request for a sessionId without a registry entry is
\* answered without an error outcome (a success answer, not 404 or 500) and
\* leaves the registry and the credential tables unchanged.
LogoutAbsentIsQuiet ==
    [][\A s \in Sessions :
          LogoutAbsent(s)
          => /\ resp'.code = 200
             /\ registry' = registry
             /\ table' = table]_vars

\* a step in which the logout request for sessionId sends its answer
LogoutReturns(sessionId) ==
    \/ LogoutStart(sessionId) /\ lo'.pc = "idle"
    \/ /\ lo.pc # "idle" /\ lo.sid = sessionId /\ lo'.pc = "idle"
       /\ \/ \E ended \in BOOLEAN : SocketLogoutDone(ended)
          \/ LogoutClearDone(TRUE)

\* C12: logout of an existing session runs the protocol-level logout first
\* (whether or not it fails, the credential release follows), then the
\* credential release, then the removal; when it returns the session has no
\* credential row and no registry entry.
LogoutReleasesAll ==
    [][\A s \in Sessions :
          /\ (lo.pc = "socketLogout" /\ lo.hook /\ \E ended \in BOOLEAN : SocketLogoutDone(ended))
                => lo'.pc = "clear"
          /\ LogoutReturns(s)
                => /\ registry'[s] = NoRec
                   /\ RowsOf(table'[TableName(s)], s) = {}]_vars

\* the display name a status snapshot of record r shows: the one of socket.user
SnapshotName(r) == IF SocketUser(r) = NULL THEN NULL ELSE SocketUser(r)[2]

\* C13: the lifecycle of a session. connect() of an absent session installs
\* 'connecting'; a QR payload gives 'waiting_qr' with the payload stored;
\* 'open' clears the payload and populates the identity; the delayed connect
\* after a non-terminal close installs 'connecting' with no payload and with
\* the identity resolved before (network address and display name) still in
\* the status snapshot.
LifecyclePreservesIdentity ==
    [][/\ \A s \in Sessions :
             (InitSession(s) /\ registry[s] = NoRec)
             => rec'[registry'[s]].connection = "connecting"
       /\ \A a \in Attempts :
             sock[a] = "live" =>
             \A u \in Updates :
                ConnectionUpdate(a, u, TRUE) =>
                /\ (u.qr # NULL /\ u.connection = "none")
                      => rec'[a].connection = "waiting_qr" /\ rec'[a].qr = u.qr
                /\ u.connection = "open"
                      => /\ rec'[a].connection = "open" /\ rec'[a].qr = NULL
                         /\ rec'[a].phoneNumber # NULL /\ rec'[a].name # NULL
       /\ \A s \in Sessions :
             (/\ registry[s] # NoRec
              /\ rec[registry[s]].connection = "close"
              /\ rec[registry[s]].name # NULL
              /\ TimerFire(s))
             => LET old == rec[registry[s]]
                    new == rec'[registry'[s]]
                IN  /\ new.connection = "connecting"
                    /\ new.qr = NULL
                    /\ getConnectionStatus(new).phoneNumber = old.phoneNumber
                    /\ SnapshotName(new) = old.name]_vars

\* the connection status of sessionId's registry record; 'absent' without one
StatusOf(reg, records, sessionId) ==
    IF reg[sessionId] = NoRec THEN "absent" ELSE records[reg[sessionId]].connection

\* the edges of the specified state graph
StatusEdges ==
    {<<"absent", "connecting">>, <<"disconnected", "connecting">>,
     <<"connecting", "waiting_qr">>, <<"waiting_qr", "connecting">>,
     <<"connecting", "open">>, <<"waiting_qr", "open">>,
     <<"open", "close">>,
     <<"close", "connecting">>, <<"close", "absent">>, <<"close", "disconnected">>}

\* a step of the transport or of connect(): a handle's event, a terminal
\* handler resuming, a timer, a sweep or an init request
TransportStep ==
    \/ \E a \in Attempts, u \in Updates, stored \in BOOLEAN : ConnectionUpdate(a, u, stored)
    \/ \E a \in Attempts, ok \in BOOLEAN : RemoveUserSessionDone(a, ok)
    \/ \E a \in Attempts, ok \in BOOLEAN : ClearSessionDone(a, ok)
    \/ \E s \in Sessions : InitSession(s) \/ TimerFire(s)
    \/ AutoHeal

\* C14: every change of the connection status of a session's registry record
\* that a transport event or connect() makes follows an edge of the state graph.
StatusFollowsGraph ==
    [][\A s \in Sessions :
          (StatusOf(registry, rec, s) # StatusOf(registry', rec', s) /\ TransportStep)
          => <<StatusOf(registry, rec, s), StatusOf(registry', rec', s)>> \in StatusEdges]_vars

\* the sessions a sweep of the given kind is meant for
SweepTargets(kind, reg) ==
    CASE kind = "autoHeal" ->
            { s \in DOMAIN reg : reg[s].connection \in {"close", "disconnected"} }
      [] kind = "keepAlive" ->
            { s \in DOMAIN reg : reg[s].socket /\ reg[s].connection = "open" }
      [] kind = "proactive" ->
            { s \in DOMAIN reg :
                /\ UUID_REGEX(Chars(s)) \/ s = "wa-bot-ai"
                /\ reg[s].socket /\ reg[s].connection = "open" }
      [] OTHER -> {}

\* C15: in a sweep, every session that satisfies the sweep's predicate and
\* whose own action does not fail receives its action, whichever other
\* sessions fail; no failure leaves the sweep.
SweepReachesAll ==
    sw.kind # "none"
    => /\ \A s \in SweepTargets(sw.kind, sw.reg) \ sw.fails : sw.out[s] = "done"
       /\ \A s \in DOMAIN sw.reg : sw.out[s] \notin {"thrown", "unvisited"}

\* C15 witness: a keep-alive sweep over three open sessions in which the ping
\* of the second fails, and the first and the third are pinged.
SweepFailureSeen ==
    /\ sw.kind = "keepAlive"
    /\ SweepTargets(sw.kind, sw.reg) = SweepIdSet
    /\ sw.fails = {SweepIds[2]}
    /\ sw.out[SweepIds[1]] = "done"
    /\ sw.out[SweepIds[3]] = "done"

\* C16: a storage failure, a returned error or a thrown exception, in a key
\* read, a key write or a credential save is absorbed: the call resolves, a
\* failed read yields no entries, and no exception reaches the transport.
StorageFailureAbsorbed ==
    (call.op \in {"keys.get", "keys.set", "saveCreds"} /\ call.failure # "none")
    => /\ call.result = "resolved"
       /\ (call.op = "keys.get" => call.value = JObj(<<>>))

\* C17: bootstrap always resolves: with the decoded stored 'auth:creds' when
\* the read succeeds and the row exists, with fresh default credentials when
\* the row is absent or the read fails.
BootstrapNeverFails ==
    [][\A s \in AdapterIds, o \in Outcomes :
          Bootstrap(s, o)
          => /\ call'.result = "resolved"
             /\ call'.value =
                   IF o = "ok" /\ CredsRow(s) \in DOMAIN table[call'.table]
                   THEN base64ToBuffer(table[call'.table][CredsRow(s)])
                   ELSE FreshCreds]_vars

\* C17 witness: a bootstrap whose read threw, answered with fresh defaults
\* although credentials are stored.
BootstrapFailedReadSeen ==
    /\ call.op = "bootstrap" /\ call.failure = "throws"
    /\ call.result = "resolved" /\ call.value = FreshCreds
    /\ CredsRow(call.sid) \in DOMAIN table[call.table]

\* the namespace rule: a sessionId that starts with 'wa-bot-ai' or has the
\* UUID shape belongs to the AI namespace, every other one to the general one
Namespace(sessionId) ==
    LET c == Chars(sessionId) IN
    IF (Len(c) >= 9 /\ SubSeq(c, 1, 9) = Chars("wa-bot-ai")) \/ UUID_REGEX(c)
    THEN "wa_ai_sessions" ELSE "wa_sessions"

\* C18: every read, batch read, write, single delete and bulk delete of a
\* session goes to the namespace its sessionId alone determines, and changes
\* no other namespace.
NamespaceIsConsistent ==
    [][call' # call
       => /\ call'.table = Namespace(call'.sid)
          /\ \A tbl \in TableNames \ {Namespace(call'.sid)} : table'[tbl] = table[tbl]]_vars

\* C18 witness: the bulk delete of a UUID-shaped session emptied its rows in
\* the AI namespace.
NamespaceUsedSeen ==
    /\ call.op = "clearSession" /\ call.sid = UuidSession /\ call.failure = "none"
    /\ call.table = "wa_ai_sessions"
    /\ RowsOf(table["wa_ai_sessions"], UuidSession) = {}
    /\ RowsOf(table["wa_ai_sessions"], "wa-bot-ai") # {}

\* C19: a status query for a sessionId the registry does not hold is answered
\* with success and a placeholder (status 'disconnected', not connected, no
\* QR, no identity), and the registry still holds no entry for it.
StatusOfUnknownIsPlaceholder ==
    [][\A s \in Sessions :
          (StatusQuery(s) /\ registry[s] = NoRec)
          => /\ resp'.code = 200 /\ resp'.success
             /\ resp'.status = "disconnected"
             /\ ~resp'.isConnected /\ ~resp'.hasQR
             /\ resp'.qr = NULL /\ resp'.phoneNumber = NULL /\ resp'.user = NULL
             /\ registry' = registry /\ rec' = rec]_vars

\* C19 witness: the placeholder was answered while the registry is empty,
\* after the session had been served and removed with its rows.
StatusOfUnknownSeen ==
    /\ resp.code = 200 /\ resp.success /\ resp.status = "disconnected"
    /\ \A s \in Sessions : registry[s] = NoRec
    /\ \E a \in Attempts : pc[a] # "unused"

\* C20: a QR query goes on to deliver the challenge exactly when the record
\* of the session holds a QR payload, and the answer then carries the image
\* of that payload; otherwise it answers, without an error status, that no
\* QR is available; neither the query nor its answer changes the registry
\* or a record.
QrQueryIsExact ==
    [][/\ \A s \in Sessions :
            QrQuery(s)
            => /\ registry' = registry /\ rec' = rec
               /\ IF registry[s] # NoRec /\ rec[registry[s]].qr # NULL
                  THEN /\ resp'.pending
                       /\ resp'.qrImage = QrImage(rec[registry[s]].qr)
                  ELSE /\ ~resp'.pending
                       /\ resp'.code = 200 /\ ~resp'.success
                       /\ resp'.qr = NULL /\ resp'.qrImage = NULL
                       /\ resp'.message \in {"Session not initialized",
                                              "Already connected, no QR needed",
                                              "QR code not available yet"}
       /\ QrImageDone
            => /\ resp'.code = 200 /\ resp'.success
               /\ resp'.qrImage = resp.qrImage
               /\ registry' = registry /\ rec' = rec]_vars

\* C20 witness: the challenge of a session waiting for its scan was answered
\* with the image of the payload its record holds.
QrChallengeSeen ==
    /\ resp.code = 200 /\ resp.success /\ resp.qrImage = QrImage(QrPayload)
    /\ \E s \in Sessions : registry[s] # NoRec /\ rec[registry[s]].qr = QrPayload

\* C21: a failure nothing caught - an uncaught exception or an unhandled
\* rejection - is taken by a top-level handler that logs it, and the process
\* keeps running with its registry and its handles as they were.
ProcessSurvives ==
    [][proc' # proc
       => /\ proc'.state = "running" /\ proc'.logged
          /\ registry' = registry /\ sock' = sock]_vars

\* C22: a terminal-close handler that resumes after connect() installed a new
\* record for its sessionId leaves the registry entry, the credential rows
\* and the session-to-identity mapping as they are.
StaleTerminalHandlerIsInert ==
    [][\A a \in Attempts :
          (/\ hpc[a] # "idle" /\ hpc'[a] # hpc[a]
           /\ registry[rec[a].sid] \notin {a, NoRec})
          => /\ registry' = registry
             /\ table' = table
             /\ userSessions' = userSessions]_vars

\* C23: the retry timer of an attempt that failed after installing its
\* 'connecting' record starts a new attempt when it fires.
RetryStartsNewAttempt ==
    [][\A s \in Sessions :
          (/\ TimerFire(s)
           /\ registry[s] # NoRec
           /\ pc[registry[s]] = "caught")
          => /\ registry'[s] # registry[s]
             /\ pc'[registry'[s]] = "fetch"]_vars

\* a step that calls connect(sessionId)
ConnectCalled(sessionId) ==
    InitSession(sessionId) \/ TimerFire(sessionId) \/ AutoHeal

\* C24: when logout(sessionId) returns the session has no registry entry and
\* no live handle, and as long as connect(sessionId) is not called a session
\* without entry and live handle gets neither, whatever a suspended connect()
\* or the handle being logged out does meanwhile.
LogoutIsFinal ==
    [][\A s \in Sessions :
          LET live == { a \in Attempts : rec[a].sid = s /\ sock[a] = "live" }
              liveAfter == { a \in Attempts : rec'[a].sid = s /\ sock'[a] = "live" }
          IN  /\ LogoutReturns(s) => (registry'[s] = NoRec /\ liveAfter = {})
              /\ (registry[s] = NoRec /\ live = {} /\ ~ConnectCalled(s))
                    => (registry'[s] = NoRec /\ liveAfter = {})]_vars

\* C25: a record of the registry holds a QR payload only while its status is
\* 'waiting_qr'.
QrOnlyWhileWaiting ==
    \A s \in Sessions :
        (registry[s] # NoRec /\ rec[registry[s]].qr # NULL)
        => rec[registry[s]].connection = "waiting_qr"

\* C26: the steps of one attempt come in order. Its first step ends the
\* handle the existing record holds and registers a new 'connecting' record
\* without a handle; the handle is made only by the attempt's last step, which
\* stores it in that record as it wires the subscriptions; a handler of the
\* handle runs only after that step, on a record that holds the handle.
AttemptStepsInOrder ==
    [][\A a \in Attempts :
          /\ (pc[a] = "unused" /\ pc'[a] # "unused")
                => LET s == rec'[a].sid
                       old == registry[s]
                   IN  /\ pc'[a] = "fetch"
                       /\ registry'[s] = a
                       /\ rec'[a].connection = "connecting"
                       /\ ~rec'[a].socket /\ sock'[a] = "none"
                       /\ (old # NoRec /\ rec[old].socket)
                             => (sock'[old] = "detached" /\ ~rec'[old].socket)
          /\ (sock[a] = "none" /\ sock'[a] # "none")
                => /\ pc[a] = "load" /\ pc'[a] = "wired"
                   /\ sock'[a] = "live" /\ rec'[a].socket
          /\ ~(pc[a] = "wired" /\ rec[a].socket)
                => ~\E u \in Updates, stored \in BOOLEAN : ConnectionUpdate(a, u, stored)]_vars

\* C26 witness: a second attempt ended the handle of the first, registered
\* its record, opened its own handle and processed that handle's QR update.
AttemptOrderSeen ==
    \E a, b \in Attempts :
        /\ a # b /\ sock[b] = "detached" /\ ~rec[b].socket
        /\ registry[rec[a].sid] = a
        /\ pc[a] = "wired" /\ sock[a] = "live" /\ rec[a].socket
        /\ rec[a].qr = QrPayload

\* C27: an 'open' update leaves the record 'open' without a QR payload and
\* with the number and the name of the handle's own user; it records the
\* session-to-identity mapping exactly for a UUID-shaped sessionId, and when
\* that recording fails the handler still ends with the record 'open' and
\* nothing else changed.
OpenUpdateResolves ==
    [][\A a \in Attempts :
          (sock[a] = "live" /\ sock'[a] = "live")
          => \A u \in Updates, stored \in BOOLEAN :
                (u.connection = "open" /\ ConnectionUpdate(a, u, stored))
                => /\ rec'[a].connection = "open"
                   /\ rec'[a].qr = NULL
                   /\ rec'[a].phoneNumber = <<"6", "2", "8">>
                   /\ rec'[a].name = UserName
                   /\ userSessions' =
                         IF UUID_REGEX(Chars(rec[a].sid)) /\ stored
                         THEN userSessions \cup
                                 {[user_id |-> rec[a].sid, wa_session_id |-> UserJid]}
                         ELSE userSessions
                   /\ UNCHANGED <<registry, pc, sock, hpc, timers, table, lo>>]_vars

\* C27 witness: a UUID-shaped session is 'open' with its identity resolved
\* while the recording of its mapping has failed.
OpenWithoutMappingSeen ==
    \E a \in Attempts :
        /\ sock[a] = "live"
        /\ UUID_REGEX(Chars(rec[a].sid))
        /\ registry[rec[a].sid] = a
        /\ rec[a].connection = "open" /\ rec[a].qr = NULL
        /\ rec[a].phoneNumber = <<"6", "2", "8">>
        /\ MappingOf(userSessions, rec[a].sid) = {}

\* the messages of the batch the handler last took that are to be dispatched
Inbound == { k \in 1..Len(disp.batch) : disp.type = "notify" /\ ~disp.batch[k].fromMe }

\* C28: only messages of a 'notify' batch that the account did not send are
\* dispatched; the dispatches come in batch order, at most one per message;
\* a responder's exception on message k is caught, and every later message
\* of the batch that has a responder is still dispatched.
DispatchIsolatesErrors ==
    disp.type # "none"
    => /\ \A i \in 1..Len(disp.out) :
             /\ disp.out[i].msg \in Inbound
             /\ disp.out[i].result =
                   IF disp.batch[disp.out[i].msg].throws THEN "caught" ELSE "done"
             /\ \A j \in 1..Len(disp.out) : i < j => disp.out[i].msg < disp.out[j].msg
       /\ Responder(disp.sid) # "none"
             => \A k \in Inbound : \E i \in 1..Len(disp.out) : disp.out[i].msg = k

\* C28 witness: in a 'notify' batch of three inbound messages the responder
\* threw on the first and the second, and the third was dispatched too.
DispatchAfterErrorSeen ==
    /\ disp.type = "notify" /\ Len(disp.batch) = 3 /\ Len(disp.out) = 3
    /\ disp.out[1].result = "caught" /\ disp.out[2].result = "caught"
    /\ disp.out[3].result = "done"

\* the eligibility predicate of the proactive sweep and of the AI responder
Eligible(sessionId) == UUID_REGEX(Chars(sessionId)) \/ sessionId = "wa-bot-ai"

\* C29: every inbound 'notify' message of an eligible session (UUID-shaped
\* or 'wa-bot-ai') is passed to the AI responder, and every one of the
\* 'CS-BOT' session to the CS responder.
EligibleSessionsReachResponder ==
    disp.type # "none"
    => \A k \in Inbound :
          /\ Eligible(disp.sid)
                => \E i \in 1..Len(disp.out) : disp.out[i].msg = k /\ disp.out[i].to = "ai"
          /\ disp.sid = "CS-BOT"
                => \E i \in 1..Len(disp.out) : disp.out[i].msg = k /\ disp.out[i].to = "cs"

\* C30: an auto-heal sweep invokes connect(sessionId) exactly once for every
\* record that is 'close' or 'disconnected' when the sweep fires and for no
\* other record; the records it replaces meanwhile are not visited again, and
\* every entry of the registry keeps its place.
AutoHealVisitsOnce ==
    sw.kind = "autoHeal"
    => /\ \A s \in SweepIdSet :
             Cardinality({ i \in 1..Len(sw.calls) : sw.calls[i] = s })
                = IF sw.reg[s].connection \in {"close", "disconnected"} THEN 1 ELSE 0
       /\ Len(sw.after) = Len(SweepIds)
       /\ \A i \in 1..Len(sw.after) :
             /\ sw.after[i].key = SweepIds[i]
             /\ sw.after[i].value =
                   IF sw.reg[SweepIds[i]].connection \in {"close", "disconnected"}
                   THEN [connection |-> "connecting", socket |-> FALSE]
                   ELSE sw.reg[SweepIds[i]]

\* C30 witness: the first and the third session were 'close', the second
\* 'connecting'; connect() was invoked for the first, which replaced its
\* entry, and then for the third, and the first's later failure changed nothing.
AutoHealTwoSeen ==
    /\ sw.kind = "autoHeal"
    /\ sw.reg[SweepIds[1]].connection = "close"
    /\ sw.reg[SweepIds[2]].connection = "connecting"
    /\ sw.reg[SweepIds[3]].connection = "close"
    /\ sw.fails = {SweepIds[1]}
    /\ sw.calls = <<SweepIds[1], SweepIds[3]>>
    /\ sw.after[1].value.connection = "connecting"

\* C31: a keep-alive sweep pings exactly the sessions whose record holds a
\* handle and is 'open' when it fires, each once; a proactive sweep runs the
\* responder's check exactly for those of them whose sessionId is UUID-shaped
\* or 'wa-bot-ai', each once.
SweepsPickTheirSessions ==
    sw.kind \in {"keepAlive", "proactive"}
    => \A s \in SweepIdSet :
          Cardinality({ i \in 1..Len(sw.calls) : sw.calls[i] = s })
             = IF /\ sw.reg[s].socket
                  /\ sw.reg[s].connection = "open"
                  /\ sw.kind = "proactive"
                        => (UUID_REGEX(Chars(s)) \/ s = "wa-bot-ai")
               THEN 1 ELSE 0

\* C31 witness: with three open sessions a proactive sweep passed over
\* 'main-session' and ran the check for the other two.
ProactivePickSeen ==
    /\ sw.kind = "proactive"
    /\ \A s \in SweepIdSet : sw.reg[s].socket /\ sw.reg[s].connection = "open"
    /\ sw.calls = <<UuidSession, "wa-bot-ai">>

\* C32: when the credential deletion of a terminal disconnect fails - with a
\* returned error or with an exception - the handler still removes the
\* registry entry of the sessionId, schedules no reconnect and does not call
\* the deletion again.
TerminalStepsComplete ==
    [][\A a \in Attempts :
          (ClearSessionDone(a, FALSE) \/ ClearSessionThrew(a))
          => /\ registry'[rec[a].sid] = NoRec
             /\ timers' = timers
             /\ hpc'[a] = "idle"]_vars

\* the stored 'auth:creds' row of sessionId holds the identity key that
\* earlier runs stored
HoldsStoredIdentity(tbl, sessionId) ==
    /\ CredsRow(sessionId) \in DOMAIN tbl[TableName(sessionId)]
    /\ Prop(base64ToBuffer(tbl[TableName(sessionId)][CredsRow(sessionId)])[2], "noiseKey")
          = Prop(PairedCreds[2], "noiseKey")

GoodBatch(result, rows, sessionId, type, ids, outcome) ==
    LET entries == result[2]
        asked == { ids[i] : i \in 1..Len(ids) }
        StoredAt(id) == { k \in DOMAIN rows : RowId(k) = getKey(sessionId, type, id) }
    IN  /\ result[1] = "obj"
        /\ outcome # "ok" => entries = <<>>
        /\ outcome = "ok" =>
              /\ \A i \in 1..Len(entries) : entries[i][1] \in asked
              /\ \A id \in asked :
                    IF StoredAt(id) = {}
                    THEN \A i \in 1..Len(entries) : entries[i][1] # id
                    ELSE \E i \in 1..Len(entries) :
                            /\ entries[i][1] = id
                            /\ \E k \in StoredAt(id) :
                                  entries[i][2] = base64ToBuffer(rows[k])

\* C34: keys.get(type, ids) resolves with a map that holds, for every
\* requested id with a stored row of this session and type, the decoded
\* value of that row under exactly that id (ids containing ':' included),
\* nothing for an id without a row, and is empty when the query fails.
KeysGetReturnsStoredKeys ==
    [][\A s \in AdapterIds, ids \in IdLists, o \in Outcomes :
          (Uses(s) /\ KeysGet(s, "pre-key", ids, o))
          => /\ call'.result = "resolved"
             /\ GoodBatch(call'.value, table[TableName(s)], s, "pre-key", ids, o)]_vars

\* a keys.get that found a key stored under an id containing ':'
ColonIdFetched ==
    /\ call.op = "keys.get"
    /\ call.failure = "none"
    /\ \E i \in 1..Len(call.value[2]) : call.value[2][i][1] = "ab:x"

\* the rows of tbl before and after a keys.set(data) of sessionId that
\* storage carried out: every entry with a value is stored encoded under
\* its key, no row is left under the key of an entry without one, and every
\* row under another key is as it was
ExactlyApplied(before, after, sessionId, data) ==
    LET Key(i) == getKey(sessionId, data[i][1], data[i][2])
        named == { Key(i) : i \in 1..Len(data) }
    IN  /\ \A i \in 1..Len(data) :
              IF Falsy(data[i][3])
              THEN RowsWithId(after, Key(i)) = {}
              ELSE \E k \in RowsWithId(after, Key(i)) :
                      /\ RowsWithId(after, Key(i)) = {k}
                      /\ after[k] = bufferToBase64(data[i][3])
        /\ \A k \in DOMAIN before \cup DOMAIN after :
              RowId(k) \notin named
              => k \in DOMAIN before /\ k \in DOMAIN after /\ before[k] = after[k]

\* C35: a keys.set(data) that storage carries out upserts the row of every
\* (type, id) with a value, deletes the row of every (type, id) without one,
\* and leaves every other row of this and of every other session, in both
\* tables, as it was; the same keys.set once more changes nothing.
KeysSetExactAndIdempotent ==
    [][\A s \in AdapterIds, data \in KeyBatches :
          (Uses(s) /\ KeysSet(s, data, "ok", "ok"))
          => /\ ExactlyApplied(table[TableName(s)], table'[TableName(s)], s, data)
             /\ \A tbl \in TableNames \ {TableName(s)} : table'[tbl] = table[tbl]
             /\ LET ad == Adapter(s)
                    ups == SelectSeq(data, LAMBDA x : ~Falsy(x[3]))
                    dels == SelectSeq(data, LAMBDA x : Falsy(x[3]))
                IN  DeleteAll(UpsertAll(table'[ad.TABLE_NAME], ad, ups), ad, dels)
                       = table'[ad.TABLE_NAME]]_vars

\* a keys.set of the tenant session has stored one key and deleted another
\* in the table that also holds the rows of 'wa-bot-ai'
KeysSetSharedTableSeen ==
    /\ call.op = "keys.set"
    /\ call.sid = UuidSession
    /\ call.failure = "none"
    /\ Row(UuidSession, "pre-key", "2") \in DOMAIN table["wa_ai_sessions"]
    /\ Row(UuidSession, "pre-key", "1") \notin DOMAIN table["wa_ai_sessions"]
    /\ Row(UuidSession, "auth", "creds") \in DOMAIN table["wa_ai_sessions"]
    /\ Row("wa-bot-ai", "pre-key", "1") \in DOMAIN table["wa_ai_sessions"]

\* the ids the registry holds a record for
RegistryHeld == { s \in RegistryIds : SessionOf(registry, s) # NullRec }

\* C36: the registry is a map. A set makes get(id) return the record set and
\* a delete makes it return null, neither changes what get returns for any
\* other id; count is the number of ids that have a record; list() has
\* exactly one entry per such id and no other, with the id, the status the
\* record has now and its phone number.
RegistryIsAMap ==
    /\ [](/\ count(registry) = Cardinality(RegistryHeld)
          /\ LET list == getAllSessions(registry) IN
             /\ Len(list) = Cardinality(RegistryHeld)
             /\ \A s \in RegistryHeld :
                   \E i \in 1..Len(list) :
                      /\ list[i].id = s
                      /\ list[i].status = SessionOf(registry, s).connection
                      /\ list[i].phone = SessionOf(registry, s).phoneNumber
                      /\ \A j \in 1..Len(list) : list[j].id = s => j = i)
    /\ [][/\ \A s \in RegistryIds : \A data \in NewSessionData(s) :
                SetSessionCall(s, data)
                => /\ SessionOf(registry', s) = data
                   /\ \A o \in RegistryIds \ {s} :
                         SessionOf(registry', o) = SessionOf(registry, o)
          /\ \A s \in RegistryIds :
                DeleteSessionCall(s)
                => /\ SessionOf(registry', s) = NullRec
                   /\ \A o \in RegistryIds \ {s} :
                         SessionOf(registry', o) = SessionOf(registry, o)]_vars

\* a session was deleted while two others stay registered, one of them with
\* a status written after it was set
DeletedAmongOthers ==
    /\ call.op = "deleteSession"
    /\ call.sid = MainSession
    /\ SessionOf(registry, MainSession) = NullRec
    /\ count(registry) = 2
    /\ SessionOf(registry, UuidSession).connection = "open"

====
